---- MODULE Spec2Model ----
(***************************************************************************)
(* A model of ProjectPrayagV1: the RoadMapper track consolidation          *)
(* (lane_processing.py) and the VehiclePathPredictorV1 tracking loop,      *)
(* prediction smoother (tracker.py) and trajectory predictor               *)
(* (vehicle_predictor.py, lane_manager.py).                                *)
(*                                                                         *)
(* Numbers.  The code computes in floating point.  The model computes in   *)
(* exact fixed point:                                                      *)
(*   - a probability is an integer count of 1/ProbUnit;                    *)
(*   - a coordinate of the consolidation stages is an integer count of     *)
(*     1/CoordUnit pixels.                                                 *)
(* The inputs are drawn so that every mean and product the code takes is   *)
(* exact in these units.                                                   *)
(***************************************************************************)
EXTENDS Integers, Sequences, FiniteSets, TLC

VARIABLES
    \* LaneAwareVehicleTracker (tracker.py)
    frame_count,            \* self.frame_count
    tracking_history,       \* self.tracking_history: track id -> deque of points
    missed_frames,          \* self.missed_frames: track id -> consecutive misses
    lane_predictions,       \* self.lane_predictions: track id -> stored prediction
    prediction_smoothing,   \* self.prediction_smoothing: track id -> buffered raw lists
    predictions,            \* the raw lists the predictor returned in this frame's tick
    video,                  \* the frames model.track yields: track id -> centre, per frame
    \* RoadMapper track consolidation (lane_processing.py)
    pc,                     \* which function is applied, and whether it has returned
    tracks,                 \* the argument of merge_similar_tracks / snap_endpoints
    clusters,               \* merge_similar_tracks: similar_tracks of every seed
    merged,                 \* merge_similar_tracks: the list returned
    snapped_tracks,         \* snap_endpoints: the list returned
    all_tracks,             \* filter_valid_tracks: track id -> points
    track_frame_counts,     \* filter_valid_tracks: track id -> frames seen
    video_fps,              \* filter_valid_tracks: fps, in hundredths of a frame
    valid_tracks,           \* filter_valid_tracks: the list returned
    \* VehiclePredictor (vehicle_predictor.py) over a LaneManager (lane_manager.py)
    history,                \* predict_lane_possibilities: the vehicle's positions
    lanes,                  \* LaneManager.lanes
    possibilities,          \* predict_lane_possibilities: the list returned
    sampling,               \* get_path_along_lane: lane, start_progress, distance, num_points
    sampled_path,           \* get_path_along_lane: the list returned
    \* Pure functions run on their own
    polyline,               \* smooth_polyline: points
    window,                 \* smooth_polyline: window_size
    smoothed_polyline,      \* smooth_polyline: the list returned
    given_alignment,        \* _calculate_lane_probability: alignment
    probability_at          \* _calculate_lane_probability: the value returned, by distance

trackerVars == <<frame_count, tracking_history, missed_frames, lane_predictions,
                 prediction_smoothing, predictions, video>>

consolidationVars == <<tracks, clusters, merged, snapped_tracks, all_tracks,
                       track_frame_counts, video_fps, valid_tracks>>

predictorVars == <<history, lanes, possibilities, sampling, sampled_path>>

functionVars == <<polyline, window, smoothed_polyline, given_alignment, probability_at>>

vars == <<trackerVars, pc, consolidationVars, predictorVars, functionVars>>

TrackerIdle ==
    /\ frame_count = 0
    /\ tracking_history = <<>>
    /\ missed_frames = <<>>
    /\ lane_predictions = <<>>
    /\ prediction_smoothing = <<>>
    /\ predictions = <<>>
    /\ video = <<>>

ConsolidationIdle ==
    /\ tracks = <<>>
    /\ clusters = <<>>
    /\ merged = <<>>
    /\ snapped_tracks = <<>>
    /\ all_tracks = <<>>
    /\ track_frame_counts = <<>>
    /\ video_fps = 0
    /\ valid_tracks = <<>>

FunctionsIdle ==
    /\ polyline = <<>>
    /\ window = 0
    /\ smoothed_polyline = <<>>
    /\ given_alignment = 0
    /\ probability_at = <<>>

SamplingIdle ==
    /\ sampling = <<>>
    /\ sampled_path = <<>>

PredictorIdle ==
    /\ history = <<>>
    /\ lanes = <<>>
    /\ possibilities = <<>>
    /\ SamplingIdle

(***************************************************************************)
(* Generic helpers                                                         *)
(***************************************************************************)
Min(a, b) == IF a <= b THEN a ELSE b
Max(a, b) == IF a >= b THEN a ELSE b

Restrict(f, S) == [k \in S |-> f[k]]

RECURSIVE SumSeq(_)
SumSeq(s) == IF s = <<>> THEN 0 ELSE Head(s) + SumSeq(Tail(s))

\* The subsequence of s at the positions from i on where keep is TRUE, in order.
RECURSIVE SelectIdx(_, _, _)
SelectIdx(s, keep, i) ==
    IF i > Len(s) THEN <<>>
    ELSE (IF keep[i] THEN <<s[i]>> ELSE <<>>) \o SelectIdx(s, keep, i + 1)

MaxOf(S) == CHOOSE x \in S : \A y \in S : y <= x
MinOf(S) == CHOOSE x \in S : \A y \in S : x <= y

\* The members of a finite set of integers in increasing order.
RECURSIVE Ascending(_)
Ascending(S) ==
    IF S = {} THEN <<>> ELSE <<MinOf(S)>> \o Ascending(S \ {MinOf(S)})

(***************************************************************************)
(* Bounds and program constants of the tracking loop                       *)
(***************************************************************************)
MaxFrames == 41             \* frames of video the model processes
fps == 2                    \* the video's frame rate (cv2.CAP_PROP_FPS)
PAST_HISTORY_SECONDS == 4
MISS_THRESHOLD == 20
PREDICTION_INTERVAL == 8
STALE_AFTER == 15
MIN_HISTORY_FOR_PREDICTION == 10
PREDICTOR_MIN_HISTORY == 8
SMOOTHING_BUFFER == 2
ProbUnit == 1000000          \* a probability p is stored as p * ProbUnit
DECAY_NUM == 19             \* 0.95 = 19 / 20
DECAY_DEN == 20

HISTORY_LENGTH == (PAST_HISTORY_SECONDS * fps) + 5

Vehicles == {1}
Positions == {<<0, 0>>}

(***************************************************************************)
(* Prediction lists the predictor can return.  A LanePrediction carries    *)
(* the seven fields of vehicle_predictor.py:78-86.                         *)
(***************************************************************************)
Pct(p) == p * (ProbUnit \div 100)

LanePrediction(lane, pct, x) ==
    [lane_id |-> lane, probability |-> Pct(pct),
     path_points |-> <<<<x, lane>>, <<x + 120, lane>>>>,
     lane_direction |-> <<1, 0>>, alignment |-> 1,
     distance_to_lane |-> lane, travel_distance |-> 120]

PredictionLists ==
    { <<LanePrediction(1, 50, 0), LanePrediction(2, 40, 0)>>,
      <<LanePrediction(1, 50, 7), LanePrediction(2, 40, 7)>>,
      <<LanePrediction(3, 90, 0), LanePrediction(2, 90, 0)>>,
      <<LanePrediction(2, 60, 0), LanePrediction(1, 50, 0), LanePrediction(3, 30, 0)>>,
      <<LanePrediction(1, 30, 0)>> }

(***************************************************************************)
(* smooth_predictions (tracker.py:100-137)                                 *)
(***************************************************************************)
\* sum(all_probs) / len(all_probs)
AverageProbability(all_probs) == SumSeq(all_probs) \div Len(all_probs)

\* avg_prob * 0.95
DecayedProbability(avg_prob) == (avg_prob * DECAY_NUM) \div DECAY_DEN

\* pop() in place of pop(0): a full buffer drops the list that just arrived.
BufferAfterAppend_DropNewest(buffer, new_predictions) ==
    LET appended == Append(buffer, new_predictions)
    IN  IF Len(appended) > SMOOTHING_BUFFER
        THEN SubSeq(appended, 1, Len(appended) - 1) ELSE appended

\* The buffer after the append and the pop(0) of lines 101-108.
BufferAfterAppend(buffer, new_predictions) ==
    LET appended == Append(buffer, new_predictions)
    IN  IF Len(appended) > SMOOTHING_BUFFER THEN Tail(appended) ELSE appended

\* min(len(pred) for pred in buffer)
RECURSIVE MinLen(_)
MinLen(buffer) ==
    IF Len(buffer) = 1 THEN Len(buffer[1])
    ELSE Min(Len(Head(buffer)), MinLen(Tail(buffer)))

\* all_probs of lines 120-127 for one rank.
MatchingProbs_AnyLane(buffer, pred_idx, lane_id) ==
    LET hit == [k \in 1..Len(buffer) |-> pred_idx <= Len(buffer[k])]
        kept == SelectIdx(buffer, hit, 1)
    IN  [k \in 1..Len(kept) |-> kept[k][pred_idx].probability]

MatchingProbs(buffer, pred_idx, lane_id) ==
    LET hit == [k \in 1..Len(buffer) |->
                   /\ pred_idx <= Len(buffer[k])
                   /\ buffer[k][pred_idx].lane_id = lane_id]
        kept == SelectIdx(buffer, hit, 1)
    IN  [k \in 1..Len(kept) |-> kept[k][pred_idx].probability]

\* The loop of lines 117-135.
RECURSIVE SmoothedFrom(_, _, _)
SmoothedFrom(buffer, new_predictions, pred_idx) ==
    IF pred_idx > MinLen(buffer) THEN <<>>
    ELSE LET all_probs == MatchingProbs(buffer, pred_idx, new_predictions[pred_idx].lane_id)
             rest == SmoothedFrom(buffer, new_predictions, pred_idx + 1)
         IN  IF Len(all_probs) > 0
             THEN <<[new_predictions[pred_idx] EXCEPT
                       !.probability = DecayedProbability(AverageProbability(all_probs))]>>
                  \o rest
             ELSE rest

\* Lines 110-137: the list returned, given the buffer after the append.
ReturnedList_AlwaysSmoothed(after, new_predictions) ==
    SmoothedFrom(after, new_predictions, 1)

ReturnedList(after, new_predictions) ==
    IF Len(after) = 1 THEN new_predictions
    ELSE SmoothedFrom(after, new_predictions, 1)

\* Line 105: the list appended to the buffer is the raw list that arrived.
StoredList_Smoothed(buffer, new_predictions) ==
    ReturnedList(BufferAfterAppend(buffer, new_predictions), new_predictions)

StoredList(buffer, new_predictions) == new_predictions

\* smooth_predictions: the vehicle's buffer after the call and the list returned.
smooth_predictions(buffer, new_predictions) ==
    [buffer |-> BufferAfterAppend(buffer, StoredList(buffer, new_predictions)),
     smoothed |-> ReturnedList(BufferAfterAppend(buffer, new_predictions),
                               new_predictions)]

(***************************************************************************)
(* process_video: one iteration of the frame loop (tracker.py:248-331)     *)
(***************************************************************************)
\* A full history that refuses the new point in place of dropping its oldest.
DequeAppend_KeepOldest(track_history, point) ==
    IF Len(track_history) >= HISTORY_LENGTH THEN track_history
    ELSE Append(track_history, point)

\* deque(maxlen=HISTORY_LENGTH).append
DequeAppend(track_history, point) ==
    LET appended == Append(track_history, point)
    IN  IF Len(appended) > HISTORY_LENGTH THEN Tail(appended) ELSE appended

\* Lines 262-282: every detection extends its history and clears its misses.
HistoryAfterDetections(detections) ==
    [id \in DOMAIN tracking_history \cup DOMAIN detections |->
        IF id \in DOMAIN detections
        THEN DequeAppend(IF id \in DOMAIN tracking_history
                         THEN tracking_history[id] ELSE <<>>, detections[id])
        ELSE tracking_history[id]]

\* Lines 282 and 288: the miss counters after this frame's detections.
MissedAfterDetections(detections, ids) ==
    [id \in ids |->
        IF id \in DOMAIN detections THEN 0
        ELSE (IF id \in DOMAIN missed_frames THEN missed_frames[id] ELSE 0) + 1]

\* Line 290: the tracks removed in this frame.
TrackIsLost_AtThreshold(missed) == missed >= MISS_THRESHOLD

TrackIsLost(missed) == missed > MISS_THRESHOLD

\* Line 146: which histories are predicted at a tick.
HasEnoughHistory(track_history) == Len(track_history) >= MIN_HISTORY_FOR_PREDICTION

\* Line 177: a stored prediction is stale.
IsStale_AtLimit(current_time, timestamp) == current_time - timestamp >= STALE_AFTER

IsStale(current_time, timestamp) == current_time - timestamp > STALE_AFTER

\* The tick tested on the frame count before its increment.
IsPredictionTick_BeforeIncrement(count) == (count - 1) % PREDICTION_INTERVAL = 0

\* Line 299: the frame is a prediction tick.
IsPredictionTick(count) == count % PREDICTION_INTERVAL = 0

\* What the predictor may return for a history (vehicle_predictor.py:17-19, 90):
\* nothing below 8 points, otherwise nothing or one of the lists.
PredictorResults(track_history) ==
    IF Len(track_history) < PREDICTOR_MIN_HISTORY THEN {<<>>}
    ELSE {<<>>} \cup PredictionLists

\* Lines 262-296: the histories and the miss counters after this frame's
\* detections and the removal of the lost tracks.
TracksAfterCleanup(detections) ==
    LET history1 == HistoryAfterDetections(detections)
        missed1 == MissedAfterDetections(detections, DOMAIN history1)
        lost == {id \in DOMAIN history1 : TrackIsLost(missed1[id])}
    IN  [history |-> Restrict(history1, DOMAIN history1 \ lost),
         missed |-> Restrict(missed1, DOMAIN history1 \ lost),
         lost |-> lost]

\* Lines 299 and 144-146: the vehicles the predictor is called for in frame count.
AskedVehicles(count, tracked) ==
    IF IsPredictionTick(count)
    THEN {id \in DOMAIN tracked : HasEnoughHistory(tracked[id])} ELSE {}

\* One iteration of the loop, returned[id] being what the predictor returned for
\* the vehicle id if it was called for it.
FrameStep(detections, returned) ==
    LET count == frame_count + 1
        cleaned == TracksAfterCleanup(detections)
        lost == cleaned.lost
        history2 == cleaned.history
        missed2 == cleaned.missed
        lane1 == Restrict(lane_predictions, DOMAIN lane_predictions \ lost)
        smooth1 == Restrict(prediction_smoothing, DOMAIN prediction_smoothing \ lost)
        \* predict_lane_trajectories (lines 140-161)
        asked == AskedVehicles(count, history2)
        fresh == {id \in asked : returned[id] # <<>>}
        call == [id \in fresh |->
                    smooth_predictions(IF id \in DOMAIN smooth1 THEN smooth1[id] ELSE <<>>,
                                       returned[id])]
        smooth2 == [id \in DOMAIN smooth1 \cup fresh |->
                       IF id \in fresh THEN call[id].buffer ELSE smooth1[id]]
        lane2 == [id \in DOMAIN lane1 \cup fresh |->
                     IF id \in fresh
                     THEN [predictions |-> call[id].smoothed,
                           start_pos |-> history2[id][Len(history2[id])],
                           timestamp |-> count]
                     ELSE lane1[id]]
        \* draw_lane_predictions (lines 164-181)
        stale == {id \in DOMAIN lane2 : IsStale(count, lane2[id].timestamp)}
    IN  /\ frame_count' = count
        /\ tracking_history' = history2
        /\ missed_frames' = missed2
        /\ predictions' = Restrict(returned, fresh)
        /\ lane_predictions' = Restrict(lane2, DOMAIN lane2 \ stale)
        /\ prediction_smoothing' = Restrict(smooth2, DOMAIN smooth2 \ stale)
        /\ UNCHANGED <<video, functionVars, pc, consolidationVars, predictorVars>>

\* A frame of a video whose detections are any, the predictor returning any of
\* the lists it may return.
ProcessFrame(detections, returned) ==
    LET tracked == TracksAfterCleanup(detections).history
        asked == AskedVehicles(frame_count + 1, tracked)
    IN  /\ frame_count < MaxFrames
        /\ \A id \in Vehicles : returned[id] \in
              (IF id \in asked THEN PredictorResults(tracked[id]) ELSE {<<>>})
        /\ FrameStep(detections, returned)

TrackerInit ==
    /\ pc = "frames"
    /\ TrackerIdle
    /\ FunctionsIdle
    /\ ConsolidationIdle
    /\ PredictorIdle

TrackerNext ==
    \E seen \in SUBSET Vehicles :
        \E detections \in [seen -> Positions] :
            \E returned \in [Vehicles -> {<<>>} \cup PredictionLists] :
                ProcessFrame(detections, returned)

TrackerSpec == TrackerInit /\ [][TrackerNext]_vars

(***************************************************************************)
(* The frame loop on a video without lanes (the lane file is missing, so   *)
(* the predictor returns nothing), each detection of vehicle id in frame n *)
(* being at the point <<n, id>>: the histories show which detections they  *)
(* hold.                                                                   *)
(***************************************************************************)
MaxHistoryFrames == 15

HistoryNext ==
    /\ frame_count < MaxHistoryFrames
    /\ \E seen \in SUBSET Vehicles :
          ProcessFrame([id \in seen |-> <<frame_count + 1, id>>],
                       [id \in Vehicles |-> <<>>])

HistorySpec == TrackerInit /\ [][HistoryNext]_vars

(***************************************************************************)
(* Properties of the smoother and of the tracking loop                     *)
(***************************************************************************)
\* The vehicle's prediction was refreshed in the frame just processed: the raw
\* list is predictions[id], the list returned by smooth_predictions is stored
\* in lane_predictions[id] and the buffer ends with the raw list.
Refreshed(id) == id \in DOMAIN predictions

Returned(id) == lane_predictions[id].predictions

\* The entry as the smoother returns it when only its own probability counts.
OwnDecayed(pred) == [pred EXCEPT !.probability = (pred.probability * 19) \div 20]

\* Rank i of the new list names another lane than rank i of the previous list.
Mismatch(id, i) ==
    prediction_smoothing[id][1][i].lane_id # prediction_smoothing[id][2][i].lane_id

SameIdsAndProbabilities(a, b) ==
    /\ Len(a) = Len(b)
    /\ \A i \in 1..Len(a) : /\ a[i].lane_id = b[i].lane_id
                            /\ a[i].probability = b[i].probability

\* C2 as claimed: an entry whose lane differs from the previous list's lane at
\* its rank is dropped from the smoothed output.
C2_MismatchDropped ==
    \A id \in Vehicles :
        (Refreshed(id) /\ Len(prediction_smoothing[id]) = 2) =>
            \A i \in 1..MinLen(prediction_smoothing[id]) :
                Mismatch(id, i) =>
                    ~ \E k \in 1..Len(Returned(id)) :
                        Returned(id)[k].lane_id = predictions[id][i].lane_id

\* C2 as amended: such an entry is kept at its rank, with 0.95 times its own new
\* probability and its other fields unchanged; the output has one entry for
\* every rank below the length of the shortest buffered list.
C2_MismatchKeptDecayed ==
    \A id \in Vehicles :
        (Refreshed(id) /\ Len(prediction_smoothing[id]) = 2) =>
            /\ Len(Returned(id)) = MinLen(prediction_smoothing[id])
            /\ \A i \in 1..MinLen(prediction_smoothing[id]) :
                  Mismatch(id, i) => Returned(id)[i] = OwnDecayed(predictions[id][i])

C2_Witness ==
    /\ Refreshed(1)
    /\ Len(prediction_smoothing[1]) = 2
    /\ MinLen(prediction_smoothing[1]) = 2
    /\ Mismatch(1, 1)
    /\ ~ Mismatch(1, 2)

\* C3: the first list that arrives for a vehicle without a smoothing buffer is
\* returned unchanged and becomes the only list of the vehicle's buffer.
C3_FirstListUnchanged ==
    [][\A id \in Vehicles :
          (id \notin DOMAIN prediction_smoothing /\ id \in DOMAIN predictions') =>
              /\ lane_predictions'[id].predictions = predictions'[id]
              /\ prediction_smoothing'[id] = <<predictions'[id]>>]_vars

\* A first list after an eviction: the earliest tick with ten points is frame 16,
\* the earliest eviction frame 32, the earliest first list after it frame 40.
C3_Witness ==
    /\ frame_count = 40
    /\ Refreshed(1)
    /\ Len(prediction_smoothing[1]) = 1
    /\ Len(predictions[1]) = 3
    /\ Returned(1) = predictions[1]

\* C4: when the new list has the lane ids and probabilities of the buffered
\* previous list, every returned entry is the new entry with 0.95 times its
\* probability, and the buffer holds the raw lists, so the decay never compounds.
C4_IdenticalListsDecayOnce ==
    \A id \in Vehicles :
        Refreshed(id) =>
            /\ prediction_smoothing[id][Len(prediction_smoothing[id])] = predictions[id]
            /\ (/\ Len(prediction_smoothing[id]) = 2
                /\ SameIdsAndProbabilities(prediction_smoothing[id][1], predictions[id]))
               => /\ Len(Returned(id)) = Len(predictions[id])
                  /\ \A i \in 1..Len(predictions[id]) :
                        /\ Returned(id)[i] = OwnDecayed(predictions[id][i])
                        /\ 20 * Returned(id)[i].probability
                             = 19 * predictions[id][i].probability

\* A third consecutive arrival (frames 16, 24, 32) of lists with the same lane
\* ids and probabilities whose paths differ.
C4_Witness ==
    /\ frame_count = 32
    /\ Refreshed(1)
    /\ Len(prediction_smoothing[1]) = 2
    /\ SameIdsAndProbabilities(prediction_smoothing[1][1], predictions[1])
    /\ prediction_smoothing[1][1] # predictions[1]
    /\ Returned(1)[1].probability = Pct(50) - Pct(50) \div 20

\* C8: after every frame the stored predictions and the smoothing buffers belong
\* to the same vehicles and none was refreshed more than 15 frames ago; a stored
\* prediction of a tracked vehicle is deleted, with its buffer, in the first
\* frame that is more than 15 frames after its refresh, and not before.
C8_NothingStale ==
    /\ DOMAIN prediction_smoothing = DOMAIN lane_predictions
    /\ \A id \in DOMAIN lane_predictions :
          frame_count - lane_predictions[id].timestamp <= 15

C8_EvictedTogether ==
    [][\A id \in DOMAIN lane_predictions :
          (id \notin DOMAIN predictions' /\ id \in DOMAIN tracking_history') =>
              IF frame_count' - lane_predictions[id].timestamp > 15
              THEN id \notin DOMAIN lane_predictions'
                   /\ id \notin DOMAIN prediction_smoothing'
              ELSE /\ id \in DOMAIN lane_predictions'
                   /\ lane_predictions'[id] = lane_predictions[id]
                   /\ id \in DOMAIN prediction_smoothing'
                   /\ prediction_smoothing'[id] = prediction_smoothing[id]]_vars

C8_StalePredictionsEvicted == []C8_NothingStale /\ C8_EvictedTogether

\* The last state before an eviction: a stored prediction 15 frames old.
C8_Witness ==
    /\ 1 \in DOMAIN lane_predictions
    /\ 1 \in DOMAIN prediction_smoothing
    /\ frame_count - lane_predictions[1].timestamp = 15

\* C9: a tracked vehicle is removed exactly at its 21st consecutive miss, a
\* detection resets its miss count to zero, and the removal deletes it from the
\* history, the miss counters, the stored predictions and the smoothing buffers.
C9_MapsOfTrackedOnly ==
    /\ DOMAIN missed_frames = DOMAIN tracking_history
    /\ DOMAIN lane_predictions \subseteq DOMAIN tracking_history
    /\ DOMAIN prediction_smoothing \subseteq DOMAIN tracking_history
    /\ \A id \in DOMAIN tracking_history : missed_frames[id] \in 0..20

C9_RemovedAt21stMiss ==
    [][\A id \in DOMAIN tracking_history :
          IF id \in DOMAIN tracking_history'
          THEN \/ missed_frames'[id] = 0
               \/ /\ missed_frames'[id] = missed_frames[id] + 1
                  /\ tracking_history'[id] = tracking_history[id]
          ELSE /\ missed_frames[id] = 20
               /\ id \notin DOMAIN missed_frames'
               /\ id \notin DOMAIN lane_predictions'
               /\ id \notin DOMAIN prediction_smoothing']_vars

C9_LostTrackRemoved == []C9_MapsOfTrackedOnly /\ C9_RemovedAt21stMiss

\* Twenty consecutive misses of a vehicle that still has a stored prediction and
\* a buffer: the next miss removes it from the four maps.
C9_Witness ==
    /\ 1 \in DOMAIN tracking_history
    /\ missed_frames[1] = 20
    /\ 1 \in DOMAIN lane_predictions
    /\ 1 \in DOMAIN prediction_smoothing

(***************************************************************************)
(* RoadMapper: geometry of lane_processing.py.  A point is <<x, y>> in     *)
(* units of 1/CoordUnit pixel, so that the means of smooth_polyline over   *)
(* 3, 4 and 5 whole-pixel points are exact.                                *)
(***************************************************************************)
CoordUnit == 60
Px(v) == v * CoordUnit
Pt(x, y) == <<Px(x), Px(y)>>

SMOOTHING_WINDOW_SIZE == 5
HAUSDORFF_THRESHOLD == 20
ENDPOINT_SNAP_TOLERANCE == 15
MIN_TRACK_DURATION_SECONDS == 3
MIN_TRACK_POINTS == 5

DistSq(p, q) == (p[1] - q[1]) * (p[1] - q[1]) + (p[2] - q[2]) * (p[2] - q[2])

\* The test made with <= in place of <.
CloserThan_OrEqual(p, q, limit) == DistSq(p, q) <= Px(limit) * Px(limit)

\* Point(p).distance(Point(q)) < limit, the limit in pixels.
CloserThan(p, q, limit) == DistSq(p, q) < Px(limit) * Px(limit)

First(track) == track[1]
Last(track) == track[Len(track)]

RECURSIVE Concat(_)
Concat(ss) == IF ss = <<>> THEN <<>> ELSE Head(ss) \o Concat(Tail(ss))

(***************************************************************************)
(* snap_endpoints (lane_processing.py:81-115)                              *)
(***************************************************************************)
\* Lines 103-106 and 108-111: the endpoint after the comparison with one other
\* track.  point is the track's original endpoint, current the value held by
\* snapped_track so far.
SnapTo(point, current, other_track, tolerance) ==
    IF CloserThan(point, First(other_track), tolerance) THEN First(other_track)
    ELSE IF CloserThan(point, Last(other_track), tolerance) THEN Last(other_track)
    ELSE current

\* The loop of lines 96-111 from other track k on: <<snapped[0], snapped[-1]>>.
RECURSIVE SnapAgainst(_, _, _, _, _, _)
SnapAgainst(track, others, k, first, last, tolerance) ==
    IF k > Len(others) THEN <<first, last>>
    ELSE IF others[k] = track \/ Len(others[k]) < 2
         THEN SnapAgainst(track, others, k + 1, first, last, tolerance)
         ELSE SnapAgainst(track, others, k + 1,
                          SnapTo(First(track), first, others[k], tolerance),
                          SnapTo(Last(track), last, others[k], tolerance),
                          tolerance)

\* Lines 91-113 for one track of at least two points.
SnapTrack(track, others, tolerance) ==
    LET ends == SnapAgainst(track, others, 1, First(track), Last(track), tolerance)
    IN  [i \in 1..Len(track) |->
            IF i = Len(track) THEN ends[2] ELSE IF i = 1 THEN ends[1] ELSE track[i]]

\* The pass made in place: track i is compared with the tracks as rewritten so
\* far, in place of the input list.
RECURSIVE SnapInPlaceFrom(_, _, _)
SnapInPlaceFrom(list, i, tolerance) ==
    IF i > Len(list) THEN list
    ELSE IF Len(list[i]) < 2 THEN SnapInPlaceFrom(list, i + 1, tolerance)
    ELSE SnapInPlaceFrom([list EXCEPT ![i] = SnapTrack(list[i], list, tolerance)],
                         i + 1, tolerance)

snap_endpoints_InPlace(list, tolerance) ==
    IF Len(list) <= 1 THEN list
    ELSE SelectSeq(SnapInPlaceFrom(list, 1, tolerance), LAMBDA t : Len(t) >= 2)

snap_endpoints(list, tolerance) ==
    IF Len(list) <= 1 THEN list
    ELSE LET long == SelectSeq(list, LAMBDA t : Len(t) >= 2)
         IN  [i \in 1..Len(long) |-> SnapTrack(long[i], list, tolerance)]

\* The polylines snap_endpoints is applied to: straight pieces between four
\* points of a road (100 and 110 are 10 pixels apart, 110 and 130 are 20
\* apart), a bent piece, a bent piece that ends exactly 15 pixels from 100, and a
\* one-point track.
MaxSnapTracks == 3
SnapEnds == {Pt(0, 0), Pt(100, 0), Pt(110, 0), Pt(130, 0)}

SnapTrackInputs ==
    {<<a, b>> : a \in SnapEnds, b \in SnapEnds}
    \cup {<<a, Pt(50, 40), Pt(60, 40), Pt(130, 0)>> : a \in SnapEnds}
    \cup {<<Pt(0, 0), Pt(50, 40), Pt(60, 40), Pt(85, 0)>>}
    \cup {<<Pt(0, 0)>>}

RECURSIVE SeqsUpTo(_, _)
SeqsUpTo(S, n) ==
    IF n = 0 THEN {<<>>}
    ELSE LET shorter == SeqsUpTo(S, n - 1)
         IN  shorter \cup {Append(q, x) : q \in {r \in shorter : Len(r) = n - 1}, x \in S}

SnapInit ==
    /\ pc = "snap"
    /\ TrackerIdle
    /\ FunctionsIdle
    /\ PredictorIdle
    /\ tracks \in SeqsUpTo(SnapTrackInputs, MaxSnapTracks)
    /\ clusters = <<>>
    /\ merged = <<>>
    /\ snapped_tracks = <<>>
    /\ all_tracks = <<>>
    /\ track_frame_counts = <<>>
    /\ video_fps = 0
    /\ valid_tracks = <<>>

SnapEndpoints ==
    /\ pc = "snap"
    /\ pc' = "snapped"
    /\ snapped_tracks' = snap_endpoints(tracks, ENDPOINT_SNAP_TOLERANCE)
    /\ UNCHANGED <<functionVars, trackerVars, predictorVars, tracks, clusters, merged, all_tracks,
                   track_frame_counts, video_fps, valid_tracks>>

SnapSpec == SnapInit /\ [][SnapEndpoints]_vars

\* Endpoint e ("first" or "last") of a track.
End(track, e) == IF e = "first" THEN First(track) ELSE Last(track)
Ends == {"first", "last"}

\* Endpoint e of track a and endpoint f of track b are matched: within the
\* tolerance of each other and of no other endpoint of the other track.
Matched(a, e, b, f) ==
    /\ CloserThan(End(a, e), End(b, f), ENDPOINT_SNAP_TOLERANCE)
    /\ \A g \in Ends \ {f} : ~ CloserThan(End(a, e), End(b, g), ENDPOINT_SNAP_TOLERANCE)
    /\ \A g \in Ends \ {e} : ~ CloserThan(End(a, g), End(b, f), ENDPOINT_SNAP_TOLERANCE)

\* C1 as claimed: after snapping two polylines, matched endpoints have identical
\* coordinates in the returned polylines.
C1_MatchedEndpointsCoincide ==
    (/\ pc = "snapped"
     /\ Len(tracks) = 2
     /\ Len(tracks[1]) >= 2
     /\ Len(tracks[2]) >= 2) =>
        \A e \in Ends, f \in Ends :
            Matched(tracks[1], e, tracks[2], f) =>
                End(snapped_tracks[1], e) = End(snapped_tracks[2], f)

(***************************************************************************)
(* smooth_polyline (lane_processing.py:10-23)                              *)
(***************************************************************************)
\* np.mean(coords[start:end], axis=0) over the positions lo..hi.
MeanPoint(points, lo, hi) ==
    <<SumSeq([k \in 1..(hi - lo + 1) |-> points[lo + k - 1][1]]) \div (hi - lo + 1),
      SumSeq([k \in 1..(hi - lo + 1) |-> points[lo + k - 1][2]]) \div (hi - lo + 1)>>

\* Lines 18-19, for the 1-based position i: the window is lo..hi.
WindowStart(i, window_size) == Max(1, i - window_size \div 2)

\* end = min(len(coords), i + window_size // 2) in place of line 19.
WindowEnd_Short(i, n, window_size) == Min(n, i + (window_size \div 2) - 1)

WindowEnd(i, n, window_size) == Min(n, i + window_size \div 2)

smooth_polyline(points, window_size) ==
    IF Len(points) < window_size THEN points
    ELSE [i \in 1..Len(points) |->
             MeanPoint(points, WindowStart(i, window_size),
                       WindowEnd(i, Len(points), window_size))]

(***************************************************************************)
(* calculate_hausdorff_distance and merge_similar_tracks                   *)
(* (lane_processing.py:27-77)                                              *)
(***************************************************************************)
\* directed_hausdorff(points1, points2)[0], squared.
DirectedHausdorffSq(points1, points2) ==
    MaxOf({MinOf({DistSq(points1[i], points2[j]) : j \in 1..Len(points2)})
              : i \in 1..Len(points1)})

\* Lines 27-37 and 59: calculate_hausdorff_distance(line1, line2) < threshold.
\* The distance is infinite, and the test false, when a line has under 2 points.
HausdorffBelow_OrEqual(line1, line2, threshold) ==
    /\ Len(line1) >= 2
    /\ Len(line2) >= 2
    /\ Max(DirectedHausdorffSq(line1, line2), DirectedHausdorffSq(line2, line1))
         <= Px(threshold) * Px(threshold)

HausdorffBelow(line1, line2, threshold) ==
    /\ Len(line1) >= 2
    /\ Len(line2) >= 2
    /\ Max(DirectedHausdorffSq(line1, line2), DirectedHausdorffSq(line2, line1))
         < Px(threshold) * Px(threshold)

\* The loop of lines 48-61 from track i on: the positions gathered in
\* similar_tracks by every seed, given the positions used so far.
RECURSIVE ClustersFrom(_, _, _, _)
ClustersFrom(list, i, used, threshold) ==
    IF i > Len(list) THEN <<>>
    ELSE IF i \in used THEN ClustersFrom(list, i + 1, used, threshold)
    ELSE LET similar == {j \in (i + 1)..Len(list) :
                            /\ j \notin used
                            /\ HausdorffBelow(list[i], list[j], threshold)}
         IN  <<<<i>> \o Ascending(similar)>>
             \o ClustersFrom(list, i + 1, used \cup {i} \cup similar, threshold)

\* similar_tracks of every seed; the early return of lines 42-43 keeps the list.
SimilarTracks(list, threshold) ==
    IF Len(list) <= 1 THEN [i \in 1..Len(list) |-> <<i>>]
    ELSE ClustersFrom(list, 1, {}, threshold)

\* Lines 63-75: the polyline of one cluster.
ClusterPolyline_AlwaysSmoothed(list, cluster) ==
    smooth_polyline(Concat([k \in 1..Len(cluster) |-> list[cluster[k]]]),
                    SMOOTHING_WINDOW_SIZE)

ClusterPolyline(list, cluster) ==
    IF Len(cluster) = 1 THEN list[cluster[1]]
    ELSE smooth_polyline(Concat([k \in 1..Len(cluster) |-> list[cluster[k]]]),
                         SMOOTHING_WINDOW_SIZE)

merge_similar_tracks(list, threshold) ==
    IF Len(list) <= 1 THEN list
    ELSE LET found == SimilarTracks(list, threshold)
         IN  [c \in 1..Len(found) |-> ClusterPolyline(list, found[c])]

\* The tracks merge_similar_tracks is applied to: rows of 3 or 5 points at the
\* heights 0, 15, 20 and 35 (15 and 5 apart: similar; 20 apart: exactly the
\* threshold; 35 apart: not similar), and a one-point track.
MaxMergeTracks == 3
MergeHeights == {0, 15, 20, 35}

MergeTrackInputs ==
    {<<Pt(0, y), Pt(30, y), Pt(60, y)>> : y \in MergeHeights}
    \cup {<<Pt(0, y), Pt(15, y), Pt(30, y), Pt(45, y), Pt(60, y)>> : y \in MergeHeights}
    \cup {<<Pt(0, 0)>>}

MergeInit ==
    /\ pc = "merge"
    /\ TrackerIdle
    /\ FunctionsIdle
    /\ PredictorIdle
    /\ tracks \in SeqsUpTo(MergeTrackInputs, MaxMergeTracks)
    /\ clusters = <<>>
    /\ merged = <<>>
    /\ snapped_tracks = <<>>
    /\ all_tracks = <<>>
    /\ track_frame_counts = <<>>
    /\ video_fps = 0
    /\ valid_tracks = <<>>

MergeSimilarTracks ==
    /\ pc = "merge"
    /\ pc' = "merged"
    /\ clusters' = SimilarTracks(tracks, HAUSDORFF_THRESHOLD)
    /\ merged' = merge_similar_tracks(tracks, HAUSDORFF_THRESHOLD)
    /\ UNCHANGED <<functionVars, trackerVars, predictorVars, tracks, snapped_tracks, all_tracks,
                   track_frame_counts, video_fps, valid_tracks>>

MergeSpec == MergeInit /\ [][MergeSimilarTracks]_vars

(***************************************************************************)
(* filter_valid_tracks (lane_processing.py:119-128)                        *)
(***************************************************************************)
\* Line 120: int(MIN_TRACK_DURATION_SECONDS * fps), fps in hundredths.
MinFrames(fps100) == (MIN_TRACK_DURATION_SECONDS * fps100) \div 100

\* Line 124.
IsValidTrack(frames, points, fps100) ==
    /\ frames >= MinFrames(fps100)
    /\ Len(points) >= MIN_TRACK_POINTS

\* The tracks are kept in the order of the dictionary, smoothed.
filter_valid_tracks(tracks_by_id, frames_by_id, fps100) ==
    LET valid == SelectIdx([id \in 1..Len(tracks_by_id) |-> id],
                           [id \in 1..Len(tracks_by_id) |->
                               IsValidTrack(frames_by_id[id], tracks_by_id[id], fps100)],
                           1)
    IN  [k \in 1..Len(valid) |->
            smooth_polyline(tracks_by_id[valid[k]], SMOOTHING_WINDOW_SIZE)]

\* The raw tracks: track id seen in n consecutive frames, one point per frame
\* (video_processing.py:89-90), at the frame rates 1, 2.5 and 29.97.
MaxFilterTracks == 2
FpsInputs == {100, 250, 2997}
FrameCountInputs == (2..8) \cup {89, 90}
RawTrack(id, n) == [j \in 1..n |-> Pt(j, 10 * id)]

FilterInit ==
    /\ pc = "filter"
    /\ TrackerIdle
    /\ FunctionsIdle
    /\ PredictorIdle
    /\ tracks = <<>>
    /\ clusters = <<>>
    /\ merged = <<>>
    /\ snapped_tracks = <<>>
    /\ video_fps \in FpsInputs
    /\ track_frame_counts \in SeqsUpTo(FrameCountInputs, MaxFilterTracks)
    /\ all_tracks = [id \in 1..Len(track_frame_counts) |->
                        RawTrack(id, track_frame_counts[id])]
    /\ valid_tracks = <<>>

FilterValidTracks ==
    /\ pc = "filter"
    /\ pc' = "filtered"
    /\ valid_tracks' = filter_valid_tracks(all_tracks, track_frame_counts, video_fps)
    /\ UNCHANGED <<functionVars, trackerVars, predictorVars, tracks, clusters, merged, snapped_tracks, all_tracks,
                   track_frame_counts, video_fps>>

FilterSpec == FilterInit /\ [][FilterValidTracks]_vars

(***************************************************************************)
(* Properties of the consolidation stages                                  *)
(***************************************************************************)
\* C5 as claimed: a raw track is retained if and only if its frame count is at
\* least MIN_TRACK_DURATION_SECONDS * fps and it has at least MIN_TRACK_POINTS
\* points; the list returned is the smoothed retained tracks, in order.
LongEnough(id) ==
    /\ 100 * track_frame_counts[id] >= MIN_TRACK_DURATION_SECONDS * video_fps
    /\ Len(all_tracks[id]) >= MIN_TRACK_POINTS

C5_RetainedIffLongEnough ==
    pc = "filtered" =>
        LET retained == Ascending({id \in 1..Len(all_tracks) : LongEnough(id)})
        IN  /\ Len(valid_tracks) = Len(retained)
            /\ \A k \in 1..Len(retained) :
                  /\ Len(valid_tracks[k]) = Len(all_tracks[retained[k]])
                  /\ \A p \in 1..Len(valid_tracks[k]) :
                        valid_tracks[k][p][2] = Px(10 * retained[k])

\* C6: the clusters are the greedy seed-only partition.  A track is a seed when
\* no earlier seed is similar to it; every other track joins the earliest
\* similar seed; the output has one polyline per cluster, in seed order.
\* Every point of line a has a point of line b less than 20 pixels away.
WithinTwenty(a, b) ==
    \A i \in 1..Len(a) : \E j \in 1..Len(b) : DistSq(a[i], b[j]) < 1200 * 1200

\* shapeDistance(tracks[i], tracks[j]) is below the threshold of 20 pixels.
ShapeClose(i, j) ==
    /\ Len(tracks[i]) >= 2
    /\ Len(tracks[j]) >= 2
    /\ WithinTwenty(tracks[i], tracks[j])
    /\ WithinTwenty(tracks[j], tracks[i])

RECURSIVE IsSeed(_)
IsSeed(j) == \A i \in 1..(j - 1) : IsSeed(i) => ~ ShapeClose(i, j)

SeedOf(j) ==
    IF IsSeed(j) THEN j
    ELSE MinOf({i \in 1..(j - 1) : IsSeed(i) /\ ShapeClose(i, j)})

C6_GreedySeedPartition ==
    pc = "merged" =>
        LET seeds == Ascending({j \in 1..Len(tracks) : IsSeed(j)})
        IN  /\ Len(clusters) = Len(seeds)
            /\ Len(merged) = Len(seeds)
            /\ \A c \in 1..Len(seeds) :
                  clusters[c] = Ascending({j \in 1..Len(tracks) : SeedOf(j) = seeds[c]})
            /\ \A j \in 1..Len(tracks) :
                  Cardinality({c \in 1..Len(clusters) :
                                  \E k \in 1..Len(clusters[c]) : clusters[c][k] = j}) = 1

\* A is similar to B, B to C, A not to C: C is left outside A's cluster.
C6_Witness ==
    /\ pc = "merged"
    /\ Len(tracks) = 3
    /\ ShapeClose(1, 2)
    /\ ShapeClose(2, 3)
    /\ ~ ShapeClose(1, 3)
    /\ clusters = <<<<1, 2>>, <<3>>>>
    /\ Len(merged) = 2

\* The points of a cluster's members, in cluster order.
MemberPoints(c) == Concat([k \in 1..Len(clusters[c]) |-> tracks[clusters[c][k]]])

\* line is the centered moving average of points over SMOOTHING_WINDOW_SIZE.
IsMovingAverageOf(line, points) ==
    /\ Len(line) = Len(points)
    /\ IF Len(points) < 5 THEN line = points
       ELSE \A i \in 1..Len(points) :
               LET lo == Max(1, i - 2)
                   hi == Min(Len(points), i + 2)
               IN  \A axis \in 1..2 :
                      (hi - lo + 1) * line[i][axis]
                        = SumSeq([k \in 1..(hi - lo + 1) |-> points[lo + k - 1][axis]])

\* C7 as claimed: the polyline of every cluster, a one-member cluster included,
\* is the moving average of its members' points, and has as many points.
C7_EveryClusterSmoothed ==
    pc = "merged" =>
        \A c \in 1..Len(clusters) :
            /\ IsMovingAverageOf(merged[c], MemberPoints(c))
            /\ Len(merged[c]) = Len(MemberPoints(c))

\* C7 as amended: a cluster of two or more members yields the moving average of
\* its members' points; a cluster of one member yields that member unchanged;
\* either way the polyline has as many points as the members together.
C7_MergedClustersSmoothed ==
    pc = "merged" =>
        \A c \in 1..Len(clusters) :
            /\ Len(merged[c]) = Len(MemberPoints(c))
            /\ IF Len(clusters[c]) = 1
               THEN merged[c] = tracks[clusters[c][1]]
               ELSE IsMovingAverageOf(merged[c], MemberPoints(c))

\* A three-point and a five-point track merged into one polyline of 8 points,
\* beside a five-point track left alone.
C7_Witness ==
    /\ pc = "merged"
    /\ Len(tracks) = 3
    /\ clusters = <<<<1, 3>>, <<2>>>>
    /\ Len(tracks[1]) = 3
    /\ Len(tracks[3]) = 5
    /\ Len(tracks[2]) = 5
    /\ Len(merged[1]) = 8
    /\ merged[1] # MemberPoints(1)
    /\ merged[2] = tracks[2]

(***************************************************************************)
(* VehiclePredictor over a LaneManager                                     *)
(* (vehicle_predictor.py, lane_manager.py)                                 *)
(*                                                                         *)
(* Positions and lane vertices are whole pixels.  The lanes modelled are   *)
(* made of segments parallel to an axis and the vehicle's displacements    *)
(* have whole lengths, so every length, distance and projection the code   *)
(* computes is a whole number, every direction component is a multiple of  *)
(* 1/DirUnit and every sampled path coordinate a multiple of 1/7.          *)
(***************************************************************************)
PROCESSING_FPS == 50
PREDICTOR_MIN_SPEED_DEN == 2          \* 0.5 = 1 / 2
MIN_MOVEMENT == 2
LANE_SEARCH_RADIUS == 80
MAX_CANDIDATE_LANES == 4
MAX_LANE_DISTANCE == 50
MIN_ALIGNMENT_NUM == 3                \* 0.3 = 3 / 10
MIN_PROBABILITY_DEN == 5              \* 0.2 = 1 / 5
CLOSE_LANE_DISTANCE == 15
MAX_PREDICTION_DISTANCE == 120
MAX_PREDICTIONS == 3
NUM_PATH_POINTS == 8
DirUnit == 5                          \* a direction component c is stored as c * DirUnit

None == <<>>

Abs(x) == IF x < 0 THEN -x ELSE x
Minus(a, b) == <<a[1] - b[1], a[2] - b[2]>>
Dot(a, b) == a[1] * b[1] + a[2] * b[2]
Clamp(x, lo, hi) == Max(lo, Min(x, hi))
Take(s, n) == SubSeq(s, 1, Min(n, Len(s)))

\* math.sqrt, rounded down; exact on the perfect squares.
RECURSIVE SqrtBetween(_, _, _)
SqrtBetween(n, lo, hi) ==
    IF lo >= hi THEN lo
    ELSE LET mid == (lo + hi + 1) \div 2
         IN  IF mid * mid <= n THEN SqrtBetween(n, mid, hi)
                               ELSE SqrtBetween(n, lo, mid - 1)

Sqrt(n) == SqrtBetween(n, 0, Min(n, 46340))
Norm(v) == Sqrt(Dot(v, v))

\* [dx/length, dy/length], in units of 1/DirUnit.
UnitVector(v) == <<(DirUnit * v[1]) \div Norm(v), (DirUnit * v[2]) \div Norm(v)>>

\* A vector whose length and whose normalised components are represented exactly.
Representable(v) ==
    LET length == Norm(v)
    IN  /\ length * length = Dot(v, v)
        /\ length > 0 => /\ (DirUnit * v[1]) % length = 0
                         /\ (DirUnit * v[2]) % length = 0

\* sorted(..., key=...) and list.sort(key=..., reverse=True) are stable: the
\* position of element i of a list with these keys after the sort.
RankAscending(keys, i) ==
    1 + Cardinality({j \in 1..Len(keys) :
                        keys[j] < keys[i] \/ (keys[j] = keys[i] /\ j < i)})

RankDescending(keys, i) ==
    1 + Cardinality({j \in 1..Len(keys) :
                        keys[j] > keys[i] \/ (keys[j] = keys[i] /\ j < i)})

SortedAscending(s, keys) ==
    [r \in 1..Len(s) |-> s[CHOOSE i \in 1..Len(s) : RankAscending(keys, i) = r]]

(***************************************************************************)
(* shapely LineString operations on a lane's coordinates                   *)
(***************************************************************************)
SegmentLength(coords, i) == Norm(Minus(coords[i + 1], coords[i]))

\* The length of the first n segments.
RECURSIVE LengthUpTo(_, _)
LengthUpTo(coords, n) ==
    IF n <= 0 THEN 0 ELSE LengthUpTo(coords, n - 1) + SegmentLength(coords, n)

\* linestring.length
LineLength(coords) == LengthUpTo(coords, Len(coords) - 1)

\* The point of the axis-parallel segment from a to b that is nearest to p.
NearestOnSegment(p, a, b) ==
    IF a[2] = b[2]
    THEN <<Clamp(p[1], Min(a[1], b[1]), Max(a[1], b[1])), a[2]>>
    ELSE <<a[1], Clamp(p[2], Min(a[2], b[2]), Max(a[2], b[2]))>>

NearestOnSegmentAt(p, coords, i) == NearestOnSegment(p, coords[i], coords[i + 1])

\* The first segment that holds the point of the line nearest to p.
NearestSegment(p, coords) ==
    LET d(i) == DistSq(p, NearestOnSegmentAt(p, coords, i))
    IN  CHOOSE i \in 1..(Len(coords) - 1) :
            /\ \A j \in 1..(Len(coords) - 1) : d(i) <= d(j)
            /\ \A j \in 1..(i - 1) : d(j) > d(i)

\* nearest_points(point, linestring)[1]
NearestPoint(p, coords) == NearestOnSegmentAt(p, coords, NearestSegment(p, coords))

\* point.distance(linestring)
LineDistance(p, coords) == Norm(Minus(p, NearestPoint(p, coords)))

\* linestring.project(point)
LineProject(p, coords) ==
    LET i == NearestSegment(p, coords)
    IN  LengthUpTo(coords, i - 1) + Norm(Minus(NearestPoint(p, coords), coords[i]))

\* linestring.interpolate(d) for d = du / unit on the line from vertex i on; the
\* point is in units of 1/unit.  A negative d is measured back from the end of
\* the line, and a d out of range is clamped to the line.
RECURSIVE InterpolateFrom(_, _, _, _)
InterpolateFrom(coords, i, du, unit) ==
    LET a == coords[i]
        b == coords[i + 1]
        length == SegmentLength(coords, i)
        rest == LineLength(coords) - LengthUpTo(coords, i - 1)
        along == Min(du, unit * length)
    IN  IF du < 0
        THEN InterpolateFrom(coords, i, Max(0, unit * rest + du), unit)
        ELSE IF du > unit * length /\ i < Len(coords) - 1
        THEN InterpolateFrom(coords, i + 1, du - unit * length, unit)
        ELSE IF length = 0 THEN <<unit * a[1], unit * a[2]>>
        ELSE <<unit * a[1] + ((b[1] - a[1]) * along) \div length,
               unit * a[2] + ((b[2] - a[2]) * along) \div length>>

Interpolate(coords, du, unit) == InterpolateFrom(coords, 1, du, unit)

(***************************************************************************)
(* LaneManager (lane_manager.py)                                           *)
(***************************************************************************)
LaneInfo(lane, point) ==
    [lane |-> lane,
     distance |-> LineDistance(point, lane.coords),
     closest_point |-> NearestPoint(point, lane.coords),
     progress |-> LineProject(point, lane.coords)]

\* lane_manager.py:69-85
get_lanes_within_distance(lane_list, point, max_distance) ==
    LET infos == [k \in 1..Len(lane_list) |-> LaneInfo(lane_list[k], point)]
        nearby_lanes == SelectIdx(infos,
                            [k \in 1..Len(infos) |-> infos[k].distance <= max_distance], 1)
    IN  SortedAscending(nearby_lanes,
                        [k \in 1..Len(nearby_lanes) |-> nearby_lanes[k].distance])

RECURSIVE Pow2(_)
Pow2(k) == IF k <= 0 THEN 1 ELSE 2 * Pow2(k - 1)

\* 2^k modulo n
RECURSIVE Pow2Mod(_, _)
Pow2Mod(k, n) == IF k <= 0 THEN 1 % n ELSE (2 * Pow2Mod(k - 1, n)) % n

\* The binary exponent of the double progress / total_length: the a with
\* 2^a <= progress / total_length < 2^(a+1), for progress and total_length
\* above 0.  With total_length = 1 it is the exponent of progress itself.
RECURSIVE QuotientExponent(_, _)
QuotientExponent(progress, total_length) ==
    IF progress >= 2 * total_length
    THEN QuotientExponent(progress, 2 * total_length) + 1
    ELSE IF progress < total_length
    THEN QuotientExponent(2 * progress, total_length) - 1
    ELSE 0

\* The error of the division of line 113, times total_length, in units of
\* 2^(a-52): the quotient is rounded to the nearest double of 53 bits, a tie
\* to the even one.
QuotientError(progress, total_length) ==
    LET k == 52 - QuotientExponent(progress, total_length)
        r2 == ((progress % (2 * total_length)) * Pow2Mod(k, 2 * total_length))
                  % (2 * total_length)
        remainder == r2 % total_length
        odd == r2 \div total_length = 1
        up == 2 * remainder > total_length \/ (2 * remainder = total_length /\ odd)
    IN  IF up THEN total_length - remainder ELSE -remainder

\* The rounding of the double n * (p / total_length), for whole numbers whose
\* exact product n * p / total_length is a whole number too: 1 when the double
\* lies above it, -1 when below, 0 when it is exact.  The product leaves the
\* exact value when the error carried from the division is more than half a
\* unit in the last place on that side (a quarter of one below a power of 2).
\* Lines 113 and 163-166 of lane_manager.py compute such products.
ProductRounding(n, p, total_length) ==
    IF n <= 0 \/ p <= 0 THEN 0
    ELSE LET product == (n * p) \div total_length
             places == QuotientExponent(product, 1) - QuotientExponent(p, total_length)
             carried == 4 * n * QuotientError(p, total_length)
             below == IF product = Pow2(QuotientExponent(product, 1))
                      THEN places ELSE places + 1
         IN  IF carried > total_length * Pow2(places + 1) THEN 1
             ELSE IF -carried > total_length * Pow2(below) THEN -1
             ELSE 0

\* The loop of lane_manager.py:116-127 from segment i on, and the fallback of
\* 129-136.  current_length + seg_length >= target_length (line 117) is told for
\* lengths in whole pixels: target_length, (progress / total_length) *
\* cumulative_length of line 113, differs from progress by rounding only.
RECURSIVE DirectionFrom(_, _, _, _)
DirectionFrom(coords, i, current_length, progress) ==
    IF i > Len(coords) - 1
    THEN LET v == Minus(coords[Len(coords)], coords[Len(coords) - 1])
         IN  IF Norm(v) > 0 THEN UnitVector(v) ELSE None
    ELSE LET seg_length == SegmentLength(coords, i)
             v == Minus(coords[i + 1], coords[i])
             reached == current_length + seg_length
         IN  IF \/ reached > progress
                \/ /\ reached = progress
                   /\ ProductRounding(LineLength(coords), progress,
                                      LineLength(coords)) <= 0
             THEN IF v = <<0, 0>>
                  THEN DirectionFrom(coords, i + 1, current_length, progress)
                  ELSE UnitVector(v)
             ELSE DirectionFrom(coords, i + 1, current_length + seg_length, progress)

\* lane_manager.py:89-136; linestring.length and the summed segment lengths
\* are the same double, so target_length is progress divided and multiplied by it.
get_lane_direction_at_progress(lane, progress) ==
    IF Len(lane.coords) < 2 THEN None
    ELSE IF LineLength(lane.coords) = 0 THEN None
    ELSE DirectionFrom(lane.coords, 1, 0, progress)

\* max(1, num_points - 1): a path coordinate or progress x of a path of
\* num_points points is stored as x * PathScale(num_points).
PathScale(num_points) == Max(1, num_points - 1)

\* The loop with the test of line 170 made before the point is appended.
RECURSIVE PathFrom_BreakFirst(_, _, _, _, _, _, _)
PathFrom_BreakFirst(coords, startu, maxu, stepu, i, num_points, unit) ==
    IF i >= num_points THEN <<>>
    ELSE LET currentu == Min(startu + i * stepu, unit * LineLength(coords))
             point == Interpolate(coords, currentu, unit)
         IN  IF currentu >= maxu THEN <<>>
             ELSE <<point>> \o PathFrom_BreakFirst(coords, startu, maxu, stepu, i + 1,
                                                   num_points, unit)

\* The loop of lane_manager.py:165-171 from index i on; progress in 1/unit.
\* start_progress + i * progress_step is taken exactly but for its sign: where
\* the exact sum is 0, the double of line 166 is below 0 when i * progress_step
\* is rounded down, and interpolate measures it back from the end of the line.
RECURSIVE PathFrom(_, _, _, _, _, _, _)
PathFrom(coords, startu, maxu, stepu, i, num_points, unit) ==
    IF i >= num_points THEN <<>>
    ELSE LET currentu == Min(startu + i * stepu, unit * LineLength(coords))
             negative == currentu = 0 /\ ProductRounding(i, stepu, unit) < 0
             point == IF negative
                      THEN Interpolate(coords, unit * LineLength(coords), unit)
                      ELSE Interpolate(coords, currentu, unit)
         IN  IF currentu >= maxu /\ ~negative THEN <<point>>
             ELSE <<point>> \o PathFrom(coords, startu, maxu, stepu, i + 1,
                                        num_points, unit)

\* lane_manager.py:150-175; progress_step is
\* (max_progress - start_progress) / max(1, num_points - 1).
get_path_along_lane(lane, start_progress, distance, num_points) ==
    LET length == LineLength(lane.coords)
        max_progress == Min(start_progress + distance, length)
        unit == PathScale(num_points)
    IN  IF length <= start_progress THEN <<>>
        ELSE IF max_progress <= start_progress THEN <<>>
        ELSE PathFrom(lane.coords, unit * start_progress, unit * max_progress,
                      max_progress - start_progress, 0, num_points, unit)

(***************************************************************************)
(* VehiclePredictor (vehicle_predictor.py)                                 *)
(***************************************************************************)
\* vehicle_predictor.py:93-114.  The three frame-to-frame velocities sum to
\* (positions[-1] - positions[-4]) / dt with dt = 1 / PROCESSING_FPS; the value
\* is three times the averaged velocity.
calculate_smoothed_velocity(positions) ==
    IF Len(positions) < 4 THEN None
    ELSE LET d == Minus(positions[Len(positions)], positions[Len(positions) - 3])
         IN  <<PROCESSING_FPS * d[1], PROCESSING_FPS * d[2]>>

\* _get_speed(velocity) < 0.5, for three times the velocity.
SpeedTooLow(velocity3) ==
    PREDICTOR_MIN_SPEED_DEN * PREDICTOR_MIN_SPEED_DEN * Dot(velocity3, velocity3) < 3 * 3

\* Any displacement other than none in place of length < 2.
get_movement_direction_AnyMovement(positions) ==
    IF Len(positions) < 5 THEN None
    ELSE LET d == Minus(positions[Len(positions)], positions[Len(positions) - 4])
         IN  IF Dot(d, d) = 0 THEN None ELSE UnitVector(d)

\* vehicle_predictor.py:117-134
get_movement_direction(positions) ==
    IF Len(positions) < 5 THEN None
    ELSE LET d == Minus(positions[Len(positions)], positions[Len(positions) - 4])
         IN  IF Dot(d, d) < MIN_MOVEMENT * MIN_MOVEMENT THEN None ELSE UnitVector(d)

\* vehicle_predictor.py:141-143, in units of 1/(DirUnit * DirUnit).
calculate_alignment(movement_direction, lane_direction) ==
    Abs(Dot(movement_direction, lane_direction))

\* alignment < 0.3
AlignmentTooLow(alignment) == 10 * alignment < MIN_ALIGNMENT_NUM * DirUnit * DirUnit

\* The unit directions of the last three steps that moved (lines 170-177).
RecentDirections(positions) ==
    LET n == Len(positions)
        steps == [k \in 1..3 |-> Minus(positions[n - 3 + k], positions[n - 4 + k])]
    IN  [k \in 1..Len(SelectIdx(steps, [j \in 1..3 |-> Norm(steps[j]) > 0], 1)) |->
            UnitVector(SelectIdx(steps, [j \in 1..3 |-> Norm(steps[j]) > 0], 1)[k])]

\* vehicle_predictor.py:165-191, in units of 1/50.
calculate_direction_consistency(positions) ==
    LET directions == RecentDirections(positions)
        count == Len(directions) - 1
        consistency_sum ==
            SumSeq([i \in 1..count |-> Max(0, Dot(directions[i + 1], directions[i]))])
    IN  IF Len(positions) < 6 THEN 25
        ELSE IF Len(directions) < 2 THEN 25
        ELSE (2 * consistency_sum) \div count

\* The boost of lines 158-159 given from 15 px on in place of below 15 px.
calculate_lane_probability_BoostFar(positions, lane, distance_to_lane, alignment, movement_direction) ==
    LET distance_factor == Max(0, MAX_LANE_DISTANCE - distance_to_lane)
        consistency == calculate_direction_consistency(positions)
        boost == IF distance_to_lane < CLOSE_LANE_DISTANCE THEN 2 ELSE 3
        scale == ProbUnit \div (DirUnit * DirUnit * MAX_LANE_DISTANCE * 100 * 2)
    IN  Min(ProbUnit, scale * alignment * distance_factor * (50 + consistency) * boost)

\* vehicle_predictor.py:146-162: alignment * max(0, 1 - d/50) * (0.5 + 0.5 * c),
\* times 1.5 when d < 15, capped at 1; in units of 1/ProbUnit.
calculate_lane_probability(positions, lane, distance_to_lane, alignment, movement_direction) ==
    LET distance_factor == Max(0, MAX_LANE_DISTANCE - distance_to_lane)
        consistency == calculate_direction_consistency(positions)
        boost == IF distance_to_lane < CLOSE_LANE_DISTANCE THEN 3 ELSE 2
        scale == ProbUnit \div (DirUnit * DirUnit * MAX_LANE_DISTANCE * 100 * 2)
    IN  Min(ProbUnit, scale * alignment * distance_factor * (50 + consistency) * boost)

\* probability >= 0.2 in place of probability > 0.2
ProbabilitySufficient_OrEqual(probability) == MIN_PROBABILITY_DEN * probability >= ProbUnit

\* probability > 0.2
ProbabilitySufficient(probability) == MIN_PROBABILITY_DEN * probability > ProbUnit

\* vehicle_predictor.py:194-197: speed * time_horizon * PROCESSING_FPS * 0.6 with
\* time_horizon = 2 is 20 * |velocity3|.  The square root is rounded down, which
\* leaves the capped distance (line 68-71) exact: a moving vehicle's
\* |velocity3| is at least PROCESSING_FPS.
estimate_travel_distance(velocity3) == 20 * Norm(velocity3)

\* One pass of the loop body of lines 42-86: the prediction it appends, if any.
PredictionFor(positions, lane_info, smoothed_velocity, movement_direction) ==
    LET lane == lane_info.lane
        distance_to_lane == lane_info.distance
        progress == lane_info.progress
        lane_direction == get_lane_direction_at_progress(lane, progress)
        alignment == calculate_alignment(movement_direction, lane_direction)
        probability == calculate_lane_probability(positions, lane, distance_to_lane,
                                                  alignment, movement_direction)
        prediction_distance == Min(estimate_travel_distance(smoothed_velocity),
                                   MAX_PREDICTION_DISTANCE)
        path_points == get_path_along_lane(lane, progress, prediction_distance,
                                           NUM_PATH_POINTS)
    IN  IF distance_to_lane > MAX_LANE_DISTANCE THEN <<>>
        ELSE IF lane_direction = None THEN <<>>
        ELSE IF AlignmentTooLow(alignment) THEN <<>>
        ELSE IF ~ProbabilitySufficient(probability) THEN <<>>
        ELSE IF ~(Len(path_points) > 1) THEN <<>>
        ELSE <<[lane_id |-> lane.id, probability |-> probability,
                path_points |-> path_points, lane_direction |-> lane_direction,
                alignment |-> alignment, distance_to_lane |-> distance_to_lane,
                travel_distance |-> prediction_distance]>>

\* Every nearby lane in place of nearby_lanes[:4].
ConsideredLanes_All(nearby_lanes) == nearby_lanes

\* nearby_lanes[:4] (line 42)
ConsideredLanes(nearby_lanes) == Take(nearby_lanes, MAX_CANDIDATE_LANES)

\* lane_predictions as it stands before line 89, for a vehicle that passed the
\* checks of lines 18-38.
CandidatePredictions(positions, lane_list) ==
    LET smoothed_velocity == calculate_smoothed_velocity(positions)
        movement_direction == get_movement_direction(positions)
        nearby_lanes == get_lanes_within_distance(lane_list, positions[Len(positions)],
                                                  LANE_SEARCH_RADIUS)
        considered == ConsideredLanes(nearby_lanes)
    IN  Concat([k \in 1..Len(considered) |->
                   PredictionFor(positions, considered[k], smoothed_velocity,
                                 movement_direction)])

\* The sort of line 89 without reverse=True.
RankByProbability_Unreversed(keys, i) == RankAscending(keys, i)

\* The position line 89 gives prediction i of a list with these probabilities.
RankByProbability(keys, i) == RankDescending(keys, i)

\* lane_predictions.sort(key=lambda x: x['probability'], reverse=True)
SortByProbability(candidates) ==
    LET keys == [k \in 1..Len(candidates) |-> candidates[k].probability]
    IN  [r \in 1..Len(candidates) |->
            candidates[CHOOSE i \in 1..Len(candidates) :
                                 RankByProbability(keys, i) = r]]

\* vehicle_predictor.py:17-90
predict_lane_possibilities(positions, lane_list) ==
    IF Len(positions) < PREDICTOR_MIN_HISTORY THEN <<>>
    ELSE IF SpeedTooLow(calculate_smoothed_velocity(positions)) THEN <<>>
    ELSE IF get_movement_direction(positions) = None THEN <<>>
    ELSE IF get_lanes_within_distance(lane_list, positions[Len(positions)],
                                      LANE_SEARCH_RADIUS) = <<>> THEN <<>>
    ELSE Take(SortByProbability(CandidatePredictions(positions, lane_list)),
              MAX_PREDICTIONS)

(***************************************************************************)
(* Histories and lane sets the predictor is run on                         *)
(***************************************************************************)
Here == <<100, 0>>                    \* where the vehicle is, on a straight stretch
BesideBend == <<150, 20>>             \* 10 px from the vertex of the lane that turns
HistoryLengths == {7, 8}

StepInputs == {<<1, 0>>, <<-1, 0>>, <<0, 0>>}

\* The last four frame-to-frame steps of a history.
RecentStepInputs ==
    [1..4 -> StepInputs] \cup {[k \in 1..4 |-> <<3, 4>>], [k \in 1..4 |-> <<0, 1>>]}

\* Step j of a history of n positions: the last four are the recent steps, and
\* the vehicle moved like the first of them before.
StepAt(recent, n, j) == IF j >= n - 4 THEN recent[j - (n - 5)] ELSE recent[1]

RECURSIVE PositionAt(_, _, _, _)
PositionAt(last, recent, n, k) ==
    IF k >= n THEN last
    ELSE Minus(PositionAt(last, recent, n, k + 1), StepAt(recent, n, k))

HistoryOf(last, recent, n) == [k \in 1..n |-> PositionAt(last, recent, n, k)]

HistoryInputs ==
    {h \in {HistoryOf(Here, recent, n) : recent \in RecentStepInputs, n \in HistoryLengths}
            \cup {HistoryOf(BesideBend, [k \in 1..4 |-> step], n) :
                      step \in {<<0, 1>>, <<1, 0>>, <<0, -1>>, <<-1, 0>>},
                      n \in HistoryLengths} :
        /\ Representable(Minus(h[Len(h)], h[Len(h) - 4]))
        /\ \A k \in (Len(h) - 2)..Len(h) : Representable(Minus(h[k], h[k - 1]))}

\* Lanes around the vehicle: their coordinates, the lane's id being its place.
LaneCatalog ==
    << <<<<-200, 4>>, <<400, 4>>>>,                  \* 4 px away, eastbound
       <<<<400, -10>>, <<-200, -10>>>>,              \* 10 px away, westbound
       <<<<-200, 15>>, <<400, 15>>>>,                \* 15 px away: no boost
       <<<<-200, 30>>, <<150, 30>>, <<150, 300>>>>,  \* 30 px away, turns north ahead
       <<<<110, -200>>, <<110, 200>>>>,              \* 10 px away, crossing
       <<<<-200, -60>>, <<400, -60>>>>,              \* within the radius, too far to follow
       <<<<-200, 20>>, <<100, 20>>>>,                \* ends beside the vehicle
       <<<<-200, 90>>, <<400, 90>>>> >>              \* outside the radius

LanesOf(ids) ==
    SelectIdx([k \in 1..Len(LaneCatalog) |-> [id |-> k, coords |-> LaneCatalog[k]]],
              [k \in 1..Len(LaneCatalog) |-> k \in ids], 1)

LaneInputs == {LanesOf(ids) : ids \in SUBSET (1..Len(LaneCatalog))}

PredictorInit ==
    /\ pc = "predict"
    /\ TrackerIdle
    /\ FunctionsIdle
    /\ ConsolidationIdle
    /\ history \in HistoryInputs
    /\ lanes \in LaneInputs
    /\ possibilities = <<>>
    /\ SamplingIdle

PredictLanePossibilities ==
    /\ pc = "predict"
    /\ pc' = "predicted"
    /\ possibilities' = predict_lane_possibilities(history, lanes)
    /\ UNCHANGED <<functionVars, trackerVars, consolidationVars, history, lanes, sampling, sampled_path>>

PredictorSpec == PredictorInit /\ [][PredictLanePossibilities]_vars

(***************************************************************************)
(* Claims about the predictor                                              *)
(***************************************************************************)
\* C10: for every history and every lane set, predict_lane_possibilities
\* returns at most 3 predictions, ordered by non-increasing probability.
C10_AtMostThreeByProbability ==
    pc = "predicted" =>
        /\ Len(possibilities) <= 3
        /\ \A i, j \in 1..Len(possibilities) :
               i < j => possibilities[i].probability >= possibilities[j].probability

\* Four lanes pass every check, in an order that is not the order of their
\* probabilities, and the three most probable are returned.
C10_Witness ==
    /\ pc = "predicted"
    /\ Len(history) >= 8
    /\ Len(CandidatePredictions(history, lanes)) = 4
    /\ \E k \in 1..3 : CandidatePredictions(history, lanes)[k].probability
                           < CandidatePredictions(history, lanes)[k + 1].probability
    /\ Len(possibilities) = 3
    /\ possibilities[1].probability > possibilities[3].probability

\* C11: every prediction predict_lane_possibilities returns meets all the
\* acceptance thresholds at once: distance to the lane at most 50, alignment at
\* least 0.3, probability above 0.2 and at most 1, travel distance at most 120
\* and a path of at least 2 points.
C11_Accepted(p) ==
    /\ p.distance_to_lane <= 50
    /\ 10 * p.alignment >= 3 * DirUnit * DirUnit
    /\ 10 * p.probability > 2 * ProbUnit
    /\ p.probability <= ProbUnit
    /\ p.travel_distance <= 120
    /\ Len(p.path_points) >= 2

C11_ReturnedMeetThresholds ==
    pc = "predicted" =>
        \A k \in 1..Len(possibilities) : C11_Accepted(possibilities[k])

\* A lane among the four nearest is turned down for its probability of exactly
\* 0.2 (30 px away, a vehicle whose last steps reverse each other) while another
\* lane is returned.
C11_Witness ==
    /\ pc = "predicted"
    /\ possibilities # <<>>
    /\ \E k \in 1..Len(lanes) :
          /\ LineDistance(history[Len(history)], lanes[k].coords) = 30
          /\ \A j \in 1..Len(possibilities) : possibilities[j].lane_id # lanes[k].id
          /\ calculate_direction_consistency(history) = 0
          /\ Len(lanes) <= 4

\* The lanes of the index within 80 px of the vehicle that come before lane k
\* when ranked by distance, lanes at equal distance in index order.
C12_NearerLanes(k) ==
    {j \in 1..Len(lanes) :
        /\ LineDistance(history[Len(history)], lanes[j].coords) <= 80
        /\ \/ LineDistance(history[Len(history)], lanes[j].coords) < LineDistance(history[Len(history)], lanes[k].coords)
           \/ /\ LineDistance(history[Len(history)], lanes[j].coords) = LineDistance(history[Len(history)], lanes[k].coords)
              /\ j < k}

\* C12: only the 4 nearest lanes within radius 80 are evaluated: a lane ranked
\* fifth or later by distance never appears in the output, even when nearer
\* lanes are discarded.
C12_OnlyFourNearestReturned ==
    pc = "predicted" =>
        \A i \in 1..Len(possibilities) :
            \E k \in 1..Len(lanes) :
                /\ lanes[k].id = possibilities[i].lane_id
                /\ Cardinality(C12_NearerLanes(k)) < 4

\* Two of the four nearest lanes are discarded, fewer than three predictions
\* are returned, and a lane ranked fifth that would pass every test is left out.
C12_Witness ==
    /\ pc = "predicted"
    /\ Len(possibilities) = 2
    /\ \E k \in 1..Len(lanes) :
          /\ Cardinality(C12_NearerLanes(k)) >= 4
          /\ PredictionFor(history, LaneInfo(lanes[k], history[Len(history)]),
                           calculate_smoothed_velocity(history),
                           get_movement_direction(history)) # <<>>
          /\ \A i \in 1..Len(possibilities) : possibilities[i].lane_id # lanes[k].id

\* The preconditions of a prediction, stated on the inputs.
C13_TooShort == Len(history) < 8

\* The mean of the last three frame-to-frame velocities, (h[n] - h[n-3]) * 50 / 3,
\* is shorter than 0.5.
C13_TooSlow ==
    LET d == Minus(history[Len(history)], history[Len(history) - 3])
    IN  (100 * 100) * Dot(d, d) < 3 * 3

C13_TooLittleMovement ==
    LET d == Minus(history[Len(history)], history[Len(history) - 4])
    IN  Dot(d, d) < 2 * 2

C13_NoLaneNear ==
    \A k \in 1..Len(lanes) : LineDistance(history[Len(history)], lanes[k].coords) > 80

\* C13: predict_lane_possibilities returns an empty list whenever a
\* precondition is unmet: fewer than 8 points of history, smoothed speed below
\* 0.5, a displacement below 2 for the movement direction, or no lane within
\* radius 80 (an empty lane index included).
C13_UnmetPreconditionGivesEmpty ==
    (/\ pc = "predicted"
     /\ C13_TooShort \/ C13_TooSlow \/ C13_TooLittleMovement \/ C13_NoLaneNear)
        => possibilities = <<>>

\* A vehicle with enough history and speed, lanes nearby, and a displacement of
\* one pixel over the last four steps gets nothing.
C13_Witness ==
    /\ pc = "predicted"
    /\ ~C13_TooShort
    /\ ~C13_TooSlow
    /\ ~C13_NoLaneNear
    /\ C13_TooLittleMovement
    /\ Minus(history[Len(history)], history[Len(history) - 4]) # <<0, 0>>
    /\ \E k \in 1..Len(lanes) : LineDistance(history[Len(history)], lanes[k].coords) = 4
    /\ possibilities = <<>>

(***************************************************************************)
(* Claims about the tracker's bounded buffers                              *)
(***************************************************************************)
C14_AtMostTwo ==
    \A id \in DOMAIN prediction_smoothing : Len(prediction_smoothing[id]) \in 1..2

\* The lists of a buffer once one more list has arrived: the newest last, the
\* oldest gone when there were two already.
C14_Arrived(old, new) ==
    IF Len(old) < 2 THEN Append(old, new) ELSE <<old[Len(old)], new>>

C14_NewestKept ==
    [][\A id \in DOMAIN predictions' :
          prediction_smoothing'[id] =
              C14_Arrived(IF id \in DOMAIN prediction_smoothing
                          THEN prediction_smoothing[id] ELSE <<>>,
                          predictions'[id])]_vars

\* C14: after every smooth_predictions call the vehicle's smoothing buffer
\* holds at most 2 lists, the most recently arrived ones in arrival order; a
\* third arrival drops the oldest first.
C14_BufferHoldsLastTwo == []C14_AtMostTwo /\ C14_NewestKept

\* The third tick with enough history (frame 32): a list arrives for a vehicle
\* whose buffer is full, and the buffer holds the previous list and this one.
C14_Witness ==
    /\ frame_count = 32
    /\ 1 \in DOMAIN predictions
    /\ Len(prediction_smoothing[1]) = 2
    /\ prediction_smoothing[1][2] = predictions[1]
    /\ prediction_smoothing[1][1] # predictions[1]

C15_Capacity == (PAST_HISTORY_SECONDS * fps) + 5

C15_AtMostCapacity ==
    \A id \in DOMAIN tracking_history : Len(tracking_history[id]) <= C15_Capacity

\* The points are in arrival order, and a vehicle detected in this frame has
\* this frame's point last.
C15_ArrivalOrder ==
    \A id \in DOMAIN tracking_history :
        /\ \A i, j \in 1..Len(tracking_history[id]) :
               i < j => tracking_history[id][i][1] < tracking_history[id][j][1]
        /\ missed_frames[id] = 0 =>
               tracking_history[id][Len(tracking_history[id])] = <<frame_count, id>>

\* A detection appends its point, a full history losing exactly its oldest
\* point; a frame without detection leaves a kept history alone.
C15_OldestEvicted ==
    [][\A id \in DOMAIN tracking_history' :
          LET old == IF id \in DOMAIN tracking_history THEN tracking_history[id] ELSE <<>>
              point == <<frame_count', id>>
          IN  tracking_history'[id] =
                  IF missed_frames'[id] # 0 THEN old
                  ELSE IF Len(old) = C15_Capacity THEN Append(Tail(old), point)
                  ELSE Append(old, point)]_vars

\* C15: every position history holds at most int(PAST_HISTORY_SECONDS * fps) + 5
\* points; appending to a full history evicts exactly the oldest point, and the
\* points kept are the most recent detections in arrival order, newest last.
C15_HistoryIsRingBuffer ==
    [](C15_AtMostCapacity /\ C15_ArrivalOrder) /\ C15_OldestEvicted

\* A full history that has lost its two oldest points.
C15_Witness ==
    /\ 1 \in DOMAIN tracking_history
    /\ Len(tracking_history[1]) = C15_Capacity
    /\ frame_count = C15_Capacity + 2
    /\ tracking_history[1][1] = <<3, 1>>
    /\ tracking_history[1][C15_Capacity] = <<frame_count, 1>>

(***************************************************************************)
(* process_tracks (lane_processing.py:132-146)                             *)
(***************************************************************************)
process_tracks(tracks_by_id, frames_by_id, fps100) ==
    LET valid == filter_valid_tracks(tracks_by_id, frames_by_id, fps100)
    IN  IF Len(valid) = 0 THEN <<>>
        ELSE snap_endpoints(merge_similar_tracks(valid, HAUSDORFF_THRESHOLD),
                            ENDPOINT_SNAP_TOLERANCE)

\* The raw tracks the pipeline is run on, one point per frame: a vehicle that
\* stands still, rows of a road driven east and west, a second row 10 px
\* beside the first, a drive out and back, a row of six points and one of four.
\* Moving coordinates are multiples of 60 px, which keeps both smoothing passes
\* exact.
MaxProcessTracks == 2
ProcessFpsInputs == {100, 200}

ProcessTrackInputs ==
    { [j \in 1..5 |-> Pt(0, 0)],
      [j \in 1..5 |-> Pt(60 * (j - 1), 0)],
      [j \in 1..5 |-> Pt(60 * (5 - j), 0)],
      [j \in 1..5 |-> Pt(60 * (j - 1), 10)],
      <<Pt(0, 0), Pt(60, 0), Pt(120, 0), Pt(60, 0), Pt(0, 0)>>,
      [j \in 1..6 |-> Pt(60 * (j - 1), 60)],
      [j \in 1..4 |-> Pt(60 * (j - 1), 0)] }

ProcessInit ==
    /\ pc = "process"
    /\ TrackerIdle
    /\ FunctionsIdle
    /\ PredictorIdle
    /\ tracks = <<>>
    /\ clusters = <<>>
    /\ merged = <<>>
    /\ snapped_tracks = <<>>
    /\ video_fps \in ProcessFpsInputs
    /\ all_tracks \in SeqsUpTo(ProcessTrackInputs, MaxProcessTracks)
    /\ track_frame_counts = [id \in 1..Len(all_tracks) |-> Len(all_tracks[id])]
    /\ valid_tracks = <<>>

ProcessTracks ==
    /\ pc = "process"
    /\ pc' = "processed"
    /\ valid_tracks' = filter_valid_tracks(all_tracks, track_frame_counts, video_fps)
    /\ merged' = IF Len(valid_tracks') = 0 THEN <<>>
                 ELSE merge_similar_tracks(valid_tracks', HAUSDORFF_THRESHOLD)
    /\ snapped_tracks' = process_tracks(all_tracks, track_frame_counts, video_fps)
    /\ UNCHANGED <<functionVars, trackerVars, predictorVars, tracks, clusters, all_tracks,
                   track_frame_counts, video_fps>>

ProcessSpec == ProcessInit /\ [][ProcessTracks]_vars

\* A valid LanePolyline: at least 2 points, an arc length above 0, and no two
\* consecutive interior points that coincide.
C16_ValidPolyline(line) ==
    /\ Len(line) >= 2
    /\ \E i \in 1..(Len(line) - 1) : line[i] # line[i + 1]
    /\ \A i \in 2..(Len(line) - 2) : line[i] # line[i + 1]

\* C16 as claimed: every polyline process_tracks returns, for any set of raw
\* tracks, is a valid LanePolyline.
C16_EveryPolylineValid ==
    pc = "processed" =>
        \A k \in 1..Len(snapped_tracks) : C16_ValidPolyline(snapped_tracks[k])

(***************************************************************************)
(* get_path_along_lane on its own                                          *)
(***************************************************************************)
SampleLanes == {1, 4, 7}              \* 600 px; 350 px east then 270 px north; 300 px
SampleStarts == {0, 100, 300, 620, 700}     \* a progress, as linestring.project gives it
SampleDistances == {-10, 0, 120, 300, 600, 620, 1000}
SampleCounts == {2, 3, 5, 8}          \* the predictor asks for the default, 8

SamplingInit ==
    /\ pc = "sample"
    /\ TrackerIdle
    /\ FunctionsIdle
    /\ ConsolidationIdle
    /\ history = <<>>
    /\ lanes = <<>>
    /\ possibilities = <<>>
    /\ sampling \in [lane : {[id |-> k, coords |-> LaneCatalog[k]] : k \in SampleLanes},
                     start_progress : SampleStarts,
                     distance : SampleDistances,
                     num_points : SampleCounts]
    /\ sampled_path = <<>>

GetPathAlongLane ==
    /\ pc = "sample"
    /\ pc' = "sampled"
    /\ sampled_path' = get_path_along_lane(sampling.lane, sampling.start_progress,
                                           sampling.distance, sampling.num_points)
    /\ UNCHANGED <<functionVars, trackerVars, consolidationVars, history, lanes, possibilities, sampling>>

SamplingSpec == SamplingInit /\ [][GetPathAlongLane]_vars

C17_Length == LineLength(sampling.lane.coords)
C17_End == Min(sampling.start_progress + sampling.distance, C17_Length)
C17_Empty == sampling.start_progress >= C17_Length \/ C17_End <= sampling.start_progress

\* The point of the lane at arc length start + i * (end - start) / (num_points - 1),
\* in units of 1/PathScale(num_points).
C17_PointAtStep(i) ==
    Interpolate(sampling.lane.coords,
                PathScale(sampling.num_points) * sampling.start_progress
                    + i * (C17_End - sampling.start_progress),
                PathScale(sampling.num_points))

C17_PointAt(progress) ==
    Interpolate(sampling.lane.coords, PathScale(sampling.num_points) * progress,
                PathScale(sampling.num_points))

C17_Sampled ==
    /\ Len(sampled_path) = sampling.num_points
    /\ \A i \in 0..(sampling.num_points - 1) : sampled_path[i + 1] = C17_PointAtStep(i)
    /\ sampled_path[1] = C17_PointAt(sampling.start_progress)
    /\ sampled_path[Len(sampled_path)] = C17_PointAt(C17_End)

\* C17: get_path_along_lane returns an empty list when start_progress >= length
\* or min(start_progress + distance, length) <= start_progress; otherwise
\* exactly num_points points at equal arc-length steps, the first at
\* start_progress and the last at min(start_progress + distance, length).
C17_SampledAtEqualSteps ==
    pc = "sampled" => IF C17_Empty THEN sampled_path = <<>> ELSE C17_Sampled

\* The lane with a bend sampled from 0 over its whole length with 8 points:
\* from its first vertex to its last.
C17_Witness ==
    /\ pc = "sampled"
    /\ sampling.lane.id = 4
    /\ sampling.start_progress = 0
    /\ sampling.distance = C17_Length
    /\ sampling.num_points = 8
    /\ Len(sampled_path) = 8
    /\ sampled_path[1] = <<7 * (-200), 7 * 30>>
    /\ sampled_path[8] = <<7 * 150, 7 * 300>>

(***************************************************************************)
(* smooth_polyline on its own                                              *)
(***************************************************************************)
MaxSmoothPoints == 6
SmoothPointInputs == {Pt(0, 0), Pt(10, 0), Pt(4, 7)}
SmoothWindowInputs == {2, 3, 4, 5}

SmoothInit ==
    /\ pc = "smooth"
    /\ TrackerIdle
    /\ ConsolidationIdle
    /\ PredictorIdle
    /\ polyline \in SeqsUpTo(SmoothPointInputs, MaxSmoothPoints)
    /\ window \in SmoothWindowInputs
    /\ smoothed_polyline = <<>>
    /\ given_alignment = 0
    /\ probability_at = <<>>

SmoothPolyline ==
    /\ pc = "smooth"
    /\ pc' = "smoothed"
    /\ smoothed_polyline' = smooth_polyline(polyline, window)
    /\ UNCHANGED <<trackerVars, consolidationVars, predictorVars, polyline, window,
                   given_alignment, probability_at>>

SmoothSpec == SmoothInit /\ [][SmoothPolyline]_vars

\* The window of the point at the 0-based index i: [lo, hi).
C18_Lo(i) == Max(0, i - window \div 2)
C18_Hi(i) == Min(Len(polyline), i + window \div 2 + 1)
C18_Window(i, c) == {polyline[k + 1][c] : k \in C18_Lo(i)..(C18_Hi(i) - 1)}

\* Output point i is the arithmetic mean of its window, and so lies between the
\* least and the greatest input coordinate of the window.
C18_IsMean(i) ==
    \A c \in 1..2 :
        /\ smoothed_polyline[i + 1][c] * (C18_Hi(i) - C18_Lo(i))
             = SumSeq([k \in 1..(C18_Hi(i) - C18_Lo(i)) |-> polyline[C18_Lo(i) + k][c]])
        /\ smoothed_polyline[i + 1][c] >= MinOf(C18_Window(i, c))
        /\ smoothed_polyline[i + 1][c] <= MaxOf(C18_Window(i, c))

C18_Smoothed ==
    pc = "smoothed" =>
        IF Len(polyline) < window THEN smoothed_polyline = polyline
        ELSE /\ Len(smoothed_polyline) = Len(polyline)
             /\ \A i \in 0..(Len(polyline) - 1) : C18_IsMean(i)

\* C18: smooth_polyline returns the input unchanged when it has fewer points
\* than the window; otherwise a sequence of the same length whose i-th point is
\* the mean of the input points at [max(0, i - w/2), min(n, i + w/2 + 1)), each
\* coordinate between the least and greatest of its window; the input is not
\* modified.
C18_MovingAverage == []C18_Smoothed /\ [][polyline' = polyline]_vars

\* Six points that differ, window 5: the ends average 3 and 4 points, the middle 5.
C18_Witness ==
    /\ pc = "smoothed"
    /\ window = 5
    /\ Len(polyline) = 6
    /\ polyline[1] # polyline[2]
    /\ polyline[5] # polyline[6]
    /\ smoothed_polyline # polyline
    /\ C18_Hi(0) - C18_Lo(0) = 3
    /\ C18_Hi(2) - C18_Lo(2) = 5

(***************************************************************************)
(* _calculate_lane_probability on its own                                  *)
(***************************************************************************)
\* Alignments 0.04 .. 1 in steps of 0.04, whole distances 0 .. 50, and the
\* eight-point histories (direction consistency 0, 0.5 and 1).
AlignmentInputs == 1..(DirUnit * DirUnit)
DistanceInputs == 0..MAX_LANE_DISTANCE

ProbabilityInit ==
    /\ pc = "score"
    /\ TrackerIdle
    /\ ConsolidationIdle
    /\ history \in {h \in HistoryInputs : Len(h) = 8}
    /\ lanes = <<>>
    /\ possibilities = <<>>
    /\ SamplingIdle
    /\ polyline = <<>>
    /\ window = 0
    /\ smoothed_polyline = <<>>
    /\ given_alignment \in AlignmentInputs
    /\ probability_at = <<>>

CalculateLaneProbability ==
    /\ pc = "score"
    /\ pc' = "scored"
    /\ probability_at' =
           [d \in DistanceInputs |->
               calculate_lane_probability(history, None, d, given_alignment, None)]
    /\ UNCHANGED <<trackerVars, consolidationVars, predictorVars, polyline, window,
                   smoothed_polyline, given_alignment>>

ProbabilitySpec == ProbabilityInit /\ [][CalculateLaneProbability]_vars

\* C19: for fixed positive alignment and direction consistency the lane
\* probability is non-increasing in the distance to the lane over 0..50, across
\* the boost boundary at 15 and the clamp to 1, and strictly greater at
\* distance 5 than at distance 40.
C19_NonIncreasingInDistance ==
    pc = "scored" =>
        /\ \A near, far \in 0..50 : near < far => probability_at[near] >= probability_at[far]
        /\ probability_at[5] > probability_at[40]

\* A well aligned, steady vehicle: clamped to 1 next to the lane, a drop at the
\* boost boundary, still positive beyond it.
C19_Witness ==
    /\ pc = "scored"
    /\ probability_at[0] = ProbUnit
    /\ probability_at[14] = ProbUnit
    /\ probability_at[15] < ProbUnit
    /\ probability_at[49] > 0
    /\ probability_at[50] = 0
    /\ probability_at[5] > probability_at[40]

(***************************************************************************)
(* snap_endpoints: what an output polyline is computed from                *)
(***************************************************************************)
\* The input positions of the output polylines, in order.
C20_Kept == Ascending({i \in 1..Len(tracks) : Len(tracks[i]) >= 2})

\* The endpoints of the input polylines other than polyline i that lie within
\* the tolerance of point.
C20_Candidates(point, i) ==
    {e \in {tracks[j][1] : j \in 1..Len(tracks)} \cup
           {tracks[j][Len(tracks[j])] : j \in 1..Len(tracks)} :
        \E j \in 1..Len(tracks) :
            /\ tracks[j] # tracks[i]
            /\ Len(tracks[j]) >= 2
            /\ e \in {tracks[j][1], tracks[j][Len(tracks[j])]}
            /\ DistSq(point, e) < (15 * CoordUnit) * (15 * CoordUnit)}

\* The endpoint written is an input endpoint near the polyline's own input
\* endpoint, or that endpoint itself when there is none.
C20_FromInput(written, point, i) ==
    IF C20_Candidates(point, i) = {} THEN written = point
    ELSE written \in C20_Candidates(point, i)

\* C20: snap_endpoints computes every output polyline from the original input
\* list only: the coordinates written into polyline k are original input
\* endpoints, never an endpoint already rewritten for an earlier polyline, and
\* the inner points stay as they are.
C20_ComputedFromInputOnly ==
    (pc = "snapped" /\ Len(tracks) > 1) =>
        /\ Len(snapped_tracks) = Len(C20_Kept)
        /\ \A k \in 1..Len(snapped_tracks) :
              LET i == C20_Kept[k]
                  n == Len(tracks[i])
              IN  /\ Len(snapped_tracks[k]) = n
                  /\ \A q \in 2..(n - 1) : snapped_tracks[k][q] = tracks[i][q]
                  /\ C20_FromInput(snapped_tracks[k][1], tracks[i][1], i)
                  /\ C20_FromInput(snapped_tracks[k][n], tracks[i][n], i)

\* Two polylines whose facing endpoints are 10 px apart: the first takes the
\* second's input start, and the second takes the first's input end, not the
\* end just written.
C20_Witness ==
    /\ pc = "snapped"
    /\ Len(tracks) = 2
    /\ Len(snapped_tracks) = 2
    /\ tracks[1][Len(tracks[1])] # tracks[2][1]
    /\ snapped_tracks[1][Len(snapped_tracks[1])] = tracks[2][1]
    /\ snapped_tracks[2][1] = tracks[1][Len(tracks[1])]

(***************************************************************************)
(* The frame loop over a video, with the lane index and the predictor: the *)
(* video and the lane file are given at construction (tracker.py:16-33),   *)
(* and every frame takes its detections from the video and, at a tick,     *)
(* its prediction lists from predict_lane_possibilities.                   *)
(***************************************************************************)
MaxVideoFrames == 32        \* frames of the videos

\* The lanes of the lane file: the vehicle's own lane, which ends at x = 170, its
\* continuation from x = 205 on, the opposite lane 10 px beside it, a far one,
\* and a continuation that begins only at x = 300.
VideoLaneCatalog ==
    << <<<<-200, 0>>, <<170, 0>>>>,
       <<<<400, -10>>, <<-200, -10>>>>,
       <<<<205, 0>>, <<400, 0>>>>,
       <<<<-200, 90>>, <<400, 90>>>>,
       <<<<300, 0>>, <<500, 0>>>> >>

VideoLanesOf(ids) ==
    SelectIdx([k \in 1..Len(VideoLaneCatalog) |-> [id |-> k, coords |-> VideoLaneCatalog[k]]],
              [k \in 1..Len(VideoLaneCatalog) |-> k \in ids], 1)

VideoLaneInputs == {VideoLanesOf(ids) : ids \in SUBSET (1..Len(VideoLaneCatalog))}

\* How the vehicle drives: eastwards along y = 0 at 10 px a frame; it may stand
\* from a frame on, and its detected centre may jump back by 2 px in some frames.
FirstSeenInputs == {1, 3, 7, 8, 9, 17}
StandsFromInputs == {17, 23, MaxVideoFrames + 1}
JitterInputs == {{}, {23}, {15, 23}}

CourseInputs ==
    [first : FirstSeenInputs, stands : StandsFromInputs, jitter : JitterInputs]

CourseStep(course, n) ==
    IF n >= course.stands THEN <<0, 0>>
    ELSE IF n \in course.jitter THEN <<-2, 0>>
    ELSE <<10, 0>>

\* The centre of the vehicle in frame n.
RECURSIVE CoursePosition(_, _)
CoursePosition(course, n) ==
    IF n = 0 THEN <<0, 0>>
    ELSE LET before == CoursePosition(course, n - 1)
             step == CourseStep(course, n)
         IN  <<before[1] + step[1], before[2] + step[2]>>

\* result.obb of frame n: the vehicle is detected from its first frame on.
VideoFrame(course, n) ==
    [id \in (IF n >= course.first THEN Vehicles ELSE {}) |-> CoursePosition(course, n)]

VideoOf(course) == [n \in 1..MaxVideoFrames |-> VideoFrame(course, n)]

VideoInputs == {VideoOf(course) : course \in CourseInputs}

VideoInit ==
    /\ pc = "video"
    /\ frame_count = 0
    /\ tracking_history = <<>>
    /\ missed_frames = <<>>
    /\ lane_predictions = <<>>
    /\ prediction_smoothing = <<>>
    /\ predictions = <<>>
    /\ video \in VideoInputs
    /\ FunctionsIdle
    /\ ConsolidationIdle
    /\ history = <<>>
    /\ lanes \in VideoLaneInputs
    /\ possibilities = <<>>
    /\ SamplingIdle

\* One iteration of the loop of tracker.py:248-331 on the next frame of the video.
ProcessVideoFrame ==
    /\ frame_count < Len(video)
    /\ LET detections == video[frame_count + 1]
           tracked == TracksAfterCleanup(detections).history
           asked == AskedVehicles(frame_count + 1, tracked)
       IN  \E returned \in {[id \in Vehicles |->
                                 IF id \in asked
                                 THEN predict_lane_possibilities(tracked[id], lanes)
                                 ELSE <<>>]} :
               FrameStep(detections, returned)

VideoSpec == VideoInit /\ [][ProcessVideoFrame]_vars

(***************************************************************************)
(* Claims about the loop and the predictor together                        *)
(***************************************************************************)
\* The predictor's own preconditions hold for a history: at least 8 points, a
\* speed of at least 0.5 and a movement direction.
C21_MeetsPreconditions(positions) ==
    /\ Len(positions) >= 8
    /\ ~SpeedTooLow(calculate_smoothed_velocity(positions))
    /\ get_movement_direction(positions) # None

\* C21: at the end of every prediction tick (a frame count divisible by 8), for
\* every tracked vehicle whose history holds at least 8 points and meets the
\* speed and movement-direction preconditions the predictor was run on its
\* history: whenever the predictor returns predictions for that history, they are
\* the raw list of this tick and a prediction stamped with this frame is stored.
C21_PredictedFromEightPoints ==
    (frame_count > 0 /\ frame_count % 8 = 0) =>
        \A id \in DOMAIN tracking_history :
            (/\ C21_MeetsPreconditions(tracking_history[id])
             /\ predict_lane_possibilities(tracking_history[id], lanes) # <<>>)
            => /\ id \in DOMAIN predictions
               /\ predictions[id] = predict_lane_possibilities(tracking_history[id], lanes)
               /\ id \in DOMAIN lane_predictions
               /\ lane_predictions[id].timestamp = frame_count

\* C22: after every frame, the prediction list stored for rendering for each
\* vehicle (the list smooth_predictions returned) is ordered by non-increasing
\* probability, so its first entry, drawn green, is the most likely path, the
\* second, drawn orange, the next and the third, drawn cyan, the least.
C22_StoredByProbability ==
    \A id \in DOMAIN lane_predictions :
        \A i \in 1..(Len(lane_predictions[id].predictions) - 1) :
            lane_predictions[id].predictions[i].probability
                >= lane_predictions[id].predictions[i + 1].probability

\* The list buffered for the vehicle before this frame was produced at most 15
\* frames before the frame now processed (the buffer's newest list is the raw
\* list of the refresh that stamped the stored prediction).
C23_BufferedRecently(id) ==
    /\ id \in DOMAIN prediction_smoothing
    /\ id \in DOMAIN lane_predictions
    /\ frame_count' - lane_predictions[id].timestamp <= 15

\* C23: in every frame, a list that arrives for a vehicle and is averaged with a
\* buffered earlier list (the buffer then holds two lists) finds that earlier
\* list produced at most 15 frames before; a list that arrives after a longer
\* gap, or for a vehicle without buffer, is stored as it arrived and is the only
\* list of the vehicle's buffer.
C23_AveragedWithRecentOnly ==
    [][\A id \in DOMAIN predictions' :
          IF Len(prediction_smoothing'[id]) >= 2
          THEN C23_BufferedRecently(id)
          ELSE ~C23_BufferedRecently(id)
               => /\ lane_predictions'[id].predictions = predictions'[id]
                  /\ prediction_smoothing'[id] = <<predictions'[id]>>]_vars

(***************************************************************************)
(* The per-vehicle maps of the tracking loop                               *)
(***************************************************************************)
\* C24: at the end of every processed frame the smoothing buffers and the stored
\* predictions belong to the same vehicles, all of them tracked; the histories
\* and the miss counters belong to the same vehicles; every buffer holds at
\* least one list and every buffered list and every stored prediction list has
\* at least one entry; every stored timestamp is a multiple of 8 that is not
\* greater than the frame count.
C24_MapsConsistent ==
    /\ DOMAIN prediction_smoothing = DOMAIN lane_predictions
    /\ DOMAIN lane_predictions \subseteq DOMAIN tracking_history
    /\ DOMAIN missed_frames = DOMAIN tracking_history
    /\ \A id \in DOMAIN prediction_smoothing :
          /\ Len(prediction_smoothing[id]) >= 1
          /\ \A k \in 1..Len(prediction_smoothing[id]) :
                Len(prediction_smoothing[id][k]) >= 1
    /\ \A id \in DOMAIN lane_predictions :
          /\ Len(lane_predictions[id].predictions) >= 1
          /\ lane_predictions[id].timestamp % 8 = 0
          /\ lane_predictions[id].timestamp >= 8
          /\ lane_predictions[id].timestamp <= frame_count

\* Six frames after the second refresh in a row (frames 16 and 24), the vehicle
\* missed since: all four maps hold it, the buffer holds two lists.
C24_Witness ==
    /\ frame_count = 30
    /\ 1 \in DOMAIN tracking_history
    /\ missed_frames[1] = 6
    /\ 1 \in DOMAIN lane_predictions
    /\ lane_predictions[1].timestamp = 24
    /\ Len(lane_predictions[1].predictions) = 2
    /\ Len(prediction_smoothing[1]) = 2
    /\ Len(prediction_smoothing[1][1]) = 3

(***************************************************************************)
(* snap_endpoints: what it changes                                         *)
(***************************************************************************)
\* The two points are less than 15 px apart.
C25_Within(p, q) == DistSq(p, q) < (15 * CoordUnit) * (15 * CoordUnit)

\* No endpoint of another input polyline is within the tolerance of an endpoint
\* of polyline i.
C25_Apart(i) ==
    \A j \in (1..Len(tracks)) \ {i} : \A e \in Ends, f \in Ends :
        ~C25_Within(End(tracks[i], e), End(tracks[j], f))

\* The output endpoint e of polyline i is the input's, or an input endpoint of
\* another polyline that is within the tolerance of the input's.
C25_EndpointFromNear(i, e) ==
    \/ End(snapped_tracks[i], e) = End(tracks[i], e)
    \/ \E j \in (1..Len(tracks)) \ {i} : \E f \in Ends :
          /\ End(snapped_tracks[i], e) = End(tracks[j], f)
          /\ C25_Within(End(tracks[i], e), End(tracks[j], f))

C25_OnlyEndpointsChange ==
    (/\ pc = "snapped"
     /\ Len(tracks) >= 2
     /\ \A i \in 1..Len(tracks) : Len(tracks[i]) >= 2) =>
        /\ Len(snapped_tracks) = Len(tracks)
        /\ \A i \in 1..Len(tracks) :
              /\ Len(snapped_tracks[i]) = Len(tracks[i])
              /\ \A q \in 2..(Len(tracks[i]) - 1) : snapped_tracks[i][q] = tracks[i][q]
              /\ \A e \in Ends : C25_EndpointFromNear(i, e)
              /\ C25_Apart(i) => snapped_tracks[i] = tracks[i]

\* C25: snap_endpoints changes nothing but endpoints.  Given at least two
\* polylines of at least 2 points each it returns as many polylines in the same
\* order, every interior point unchanged, every output endpoint being the
\* polyline's own input endpoint or an input endpoint of another polyline
\* strictly within the tolerance of it; a polyline whose endpoints are at or
\* beyond the tolerance from every other polyline's endpoints is returned
\* unchanged; and the input list stays as it was.
C25_SnapChangesOnlyEndpoints ==
    []C25_OnlyEndpointsChange /\ [][tracks' = tracks]_vars

\* Three polylines: the first, of four points, has its start rewritten and its
\* interior kept; the third ends exactly 15 px from an endpoint of another, has
\* no endpoint nearer to any of theirs, and is returned as it was.
C25_Witness ==
    /\ pc = "snapped"
    /\ Len(tracks) = 3
    /\ \A i \in 1..3 : Len(tracks[i]) >= 2
    /\ Len(tracks[1]) = 4
    /\ snapped_tracks[1][1] # tracks[1][1]
    /\ snapped_tracks[1][4] = tracks[1][4]
    /\ C25_Apart(3)
    /\ \E j \in 1..2 : \E f \in Ends :
          DistSq(Last(tracks[3]), End(tracks[j], f)) = (15 * CoordUnit) * (15 * CoordUnit)
    /\ snapped_tracks[3] = tracks[3]

====
